---- MODULE Spec2Model ----
(***************************************************************************)
(* RF interference calculator (calculator.py): the qualitative stage.      *)
(*                                                                         *)
(* calculate_all_products is modelled phase by phase: overlap checks,      *)
(* harmonics, IM2, the IM3/IM4/IM5/IM7 pair loop, ACLR, the dedup pass,    *)
(* the sort and the final filter.  Frequencies are integers in kHz         *)
(* (0.001 MHz), so that round(x, 2) is a rounding to a multiple of 10.     *)
(* Strings that the code orders, splits or searches (band codes, Type,     *)
(* Formula, Aggressors, Victims) are sequences of characters.              *)
(***************************************************************************)
EXTENDS Integers, Sequences, FiniteSets, TLC

VARIABLES
    pc,              \* position inside calculate_all_products
    selected_bands,  \* argument: sequence of Band
    guard,           \* argument, kHz
    imd2, imd4, imd5, imd7,  \* arguments
    aclr_margin,     \* argument, kHz
    results,         \* local list of product dicts
    overlap_alerts,  \* local list of alert strings
    deduped,         \* local list after the dedup pass (and the sort)
    valid_results,   \* returned list
    calls,           \* direct calls of the other functions: the arguments
    rets             \* what the calls made so far have returned

vars == <<pc, selected_bands, guard, imd2, imd4, imd5, imd7, aclr_margin,
          results, overlap_alerts, deduped, valid_results, calls, rets>>

----------------------------------------------------------------------------
(* Strings *)

\* The characters the strings of the program are made of, in code point
\* order.  "MUL" stands for the multiplication sign of the formula strings,
\* a non-ASCII character, which sorts after every ASCII character.
Alphabet ==
    <<" ", "(", ")", "+", ",", "-",
      "0", "1", "2", "3", "4", "5", "6", "7", "8", "9",
      "A", "B", "C", "D", "E", "F", "G", "H", "I", "J", "K", "L", "M",
      "N", "O", "P", "Q", "R", "S", "T", "U", "V", "W", "X", "Y", "Z",
      "_",
      "a", "b", "c", "d", "e", "f", "g", "h", "i", "j", "k", "l", "m",
      "n", "o", "p", "q", "r", "s", "t", "u", "v", "w", "x", "y", "z",
      "MUL">>

Chars == {Alphabet[i] : i \in 1..Len(Alphabet)}

\* ord(c), up to an order-preserving renumbering
Ord == [c \in Chars |-> CHOOSE i \in 1..Len(Alphabet) : Alphabet[i] = c]

Upper == <<"A", "B", "C", "D", "E", "F", "G", "H", "I", "J", "K", "L", "M",
           "N", "O", "P", "Q", "R", "S", "T", "U", "V", "W", "X", "Y", "Z">>

LowerOf == <<"a", "b", "c", "d", "e", "f", "g", "h", "i", "j", "k", "l", "m",
             "n", "o", "p", "q", "r", "s", "t", "u", "v", "w", "x", "y", "z">>

\* str.lower()
Lower(s) ==
    [i \in 1..Len(s) |->
        IF \E k \in 1..Len(Upper) : Upper[k] = s[i]
        THEN LowerOf[CHOOSE k \in 1..Len(Upper) : Upper[k] = s[i]]
        ELSE s[i]]

\* Python's comparison of two strings: -1, 0 or 1.  The first index where
\* the strings differ decides; without one, the shorter string is smaller.
StrCmp(a, b) ==
    IF a = b THEN 0
    ELSE LET n    == IF Len(a) <= Len(b) THEN Len(a) ELSE Len(b)
             diff == {i \in 1..n : a[i] # b[i]}
         IN  IF diff = {} THEN (IF Len(a) < Len(b) THEN -1 ELSE 1)
             ELSE LET k == CHOOSE i \in diff :
                               SubSeq(a, 1, i - 1) = SubSeq(b, 1, i - 1)
                  IN  IF Ord[a[k]] < Ord[b[k]] THEN -1 ELSE 1

\* Python's `p in s` for strings
Contains(s, p) ==
    \E i \in 0..(Len(s) - Len(p)) : SubSeq(s, i + 1, i + Len(p)) = p

\* s.split(', '): the pieces of s between the occurrences of ", "
CommaSpace == <<",", " ">>

Split(s) ==
    LET seps  == {i \in 1..(Len(s) - 1) : SubSeq(s, i, i + 1) = CommaSpace}
        n     == Cardinality(seps)
        \* the k-th separator, and the ends of the string as separators 0 and n+1
        at(k) == IF k = 0 THEN -1
                 ELSE IF k = n + 1 THEN Len(s) + 1
                 ELSE CHOOSE i \in seps : Cardinality({j \in seps : j < i}) = k - 1
    IN  [k \in 1..(n + 1) |-> SubSeq(s, at(k - 1) + 2, at(k) - 1)]

\* sorted(list of strings), as a tuple: insertion into a sorted list
RECURSIVE InsertStr(_, _)
InsertStr(sorted, x) ==
    IF sorted = <<>> THEN <<x>>
    ELSE IF StrCmp(x, Head(sorted)) < 0 THEN <<x>> \o sorted
    ELSE <<Head(sorted)>> \o InsertStr(Tail(sorted), x)

RECURSIVE SortedStrs(_)
SortedStrs(l) ==
    IF l = <<>> THEN <<>>
    ELSE InsertStr(SortedStrs(SubSeq(l, 1, Len(l) - 1)), l[Len(l)])

\* str(n) for a one-digit number
Digit(n) == <<Alphabet[6 + n + 1]>>

----------------------------------------------------------------------------
(* Numbers *)

\* round(x, 2) of x = num/den kHz: the nearest multiple of 10 kHz
\* (0.01 MHz), a tie going to the even multiple
Round2(num, den) ==
    LET unit == 10 * den
        q    == num \div unit
        r    == num % unit
    IN  IF 2 * r < unit THEN 10 * q
        ELSE IF 2 * r > unit THEN 10 * (q + 1)
        ELSE IF q % 2 = 0 THEN 10 * q ELSE 10 * (q + 1)

Abs(x) == IF x < 0 THEN -x ELSE x

Max(a, b) == IF a >= b THEN a ELSE b

Min(a, b) == IF a <= b THEN a ELSE b

----------------------------------------------------------------------------
(* Band: bands.py is not part of the sources.  The registry entries below *)
(* are bands that the specification and assess_risk_severity name, with    *)
(* their edges in kHz; tx_low = tx_high = 0 marks a receive-only band.     *)

Band(code, tx_low, tx_high, rx_low, rx_high) ==
    [code |-> code, tx_low |-> tx_low, tx_high |-> tx_high,
     rx_low |-> rx_low, rx_high |-> rx_high]

WiFi_2G == Band(<<"W", "i", "F", "i", "_", "2", "G">>, 2400000, 2483500, 2400000, 2483500)

LTE_B1 == Band(<<"L", "T", "E", "_", "B", "1">>, 1920000, 1980000, 2110000, 2170000)

GNSS_L1 == Band(<<"G", "N", "S", "S", "_", "L", "1">>, 0, 0, 1574420, 1576420)

LTE_B13 == Band(<<"L", "T", "E", "_", "B", "1", "3">>, 777000, 787000, 746000, 756000)

BLE == Band(<<"B", "L", "E">>, 2402000, 2480000, 2402000, 2480000)

HaLow_NA == Band(<<"H", "a", "L", "o", "w", "_", "N", "A">>, 902000, 928000, 902000, 928000)

LTE_B14 == Band(<<"L", "T", "E", "_", "B", "1", "4">>, 788000, 798000, 758000, 768000)

\* the 2.4 GHz ISM band: the same windows as WiFi_2G
ISM_24 == Band(<<"I", "S", "M", "_", "2", "4">>, 2400000, 2483500, 2400000, 2483500)

\* a second receive-only band, with the same window as GNSS_L1
Galileo_E1 == Band(<<"G", "a", "l", "i", "l", "e", "o", "_", "E", "1">>, 0, 0, 1574420, 1576420)

\* a time-division band below WiFi_2G: its upper transmit edge is the lower
\* receive edge of WiFi_2G, 2 MHz below the one of BLE
LTE_B40 == Band(<<"L", "T", "E", "_", "B", "4", "0">>, 2300000, 2400000, 2300000, 2400000)

\* BAND_LIST: the registry, in its order
BAND_LIST == <<WiFi_2G, LTE_B1, GNSS_L1, LTE_B13, BLE, HaLow_NA>>

----------------------------------------------------------------------------
(* assess_risk_severity *)

critical_bands ==
    <<[name |-> <<"G", "N", "S", "S", "_", "L", "1">>,      low |-> 1575000, high |-> 1576000, sev |-> 5],
      [name |-> <<"G", "N", "S", "S", "_", "L", "2">>,      low |-> 1227000, high |-> 1228000, sev |-> 5],
      [name |-> <<"G", "N", "S", "S", "_", "L", "5">>,      low |-> 1176000, high |-> 1177000, sev |-> 4],
      [name |-> <<"I", "S", "M", "_", "2", "4">>,       low |-> 2400000, high |-> 2500000, sev |-> 4],
      [name |-> <<"I", "S", "M", "_", "5", "8">>,       low |-> 5725000, high |-> 5875000, sev |-> 3],
      [name |-> <<"F", "i", "r", "s", "t", "N", "e", "t">>,     low |-> 758000,  high |-> 768000,  sev |-> 5],
      [name |-> <<"P", "u", "b", "l", "i", "c", "S", "a", "f", "e", "t", "y">>, low |-> 763000,  high |-> 775000,  sev |-> 5],
      [name |-> <<"C", "e", "l", "l", "u", "l", "a", "r", "_", "U", "L">>,  low |-> 824000,  high |-> 894000,  sev |-> 4],
      [name |-> <<"W", "i", "F", "i", "_", "2", "4">>,      low |-> 2400000, high |-> 2495000, sev |-> 4],
      [name |-> <<"W", "i", "F", "i", "_", "5">>,       low |-> 5150000, high |-> 5925000, sev |-> 3],
      [name |-> <<"B", "L", "E">>,          low |-> 2402000, high |-> 2480000, sev |-> 4]>>

victim_criticality ==
    <<[pattern |-> <<"G", "N", "S", "S", "_", "L", "1">>,  crit |-> 5],
      [pattern |-> <<"G", "N", "S", "S", "_", "L", "2">>,  crit |-> 5],
      [pattern |-> <<"G", "N", "S", "S", "_", "L", "5">>,  crit |-> 4],
      [pattern |-> <<"L", "T", "E", "_", "B", "1", "3">>,  crit |-> 5],
      [pattern |-> <<"L", "T", "E", "_", "B", "1", "4">>,  crit |-> 5],
      [pattern |-> <<"B", "L", "E">>,      crit |-> 4],
      [pattern |-> <<"W", "i", "F", "i", "_", "2", "G">>,  crit |-> 4],
      [pattern |-> <<"W", "i", "F", "i", "_", "5", "G">>,  crit |-> 3],
      [pattern |-> <<"H", "a", "L", "o", "w", "_", "N", "A">>, crit |-> 3]>>

\* Product types
T_2H == <<"2", "H">>

T_3H == <<"3", "H">>

T_4H == <<"4", "H">>

T_5H == <<"5", "H">>

T_IM2 == <<"I", "M", "2">>

T_IM3 == <<"I", "M", "3">>

T_IM4 == <<"I", "M", "4">>

T_IM5 == <<"I", "M", "5">>

T_IM7 == <<"I", "M", "7">>

T_ACLR == <<"A", "C", "L", "R">>

\* Risk symbols (emoji in the source)
SYM_SAFE == "green check"

SYM_LEGACY_RISK == "warning sign"

SYM_LEGACY_SAFE == "check mark"

SYM_CRITICAL == "red circle"

SYM_HIGH == "orange circle"

SYM_MEDIUM == "yellow circle"

SYM_LOW == "blue circle"

\* lines 795-799: the first pattern contained in the victim code decides
VictimSeverity(victim_code) ==
    LET hits == {k \in 1..Len(victim_criticality) :
                    Contains(victim_code, victim_criticality[k].pattern)}
    IN  IF hits = {} THEN 1
        ELSE LET first == CHOOSE k \in hits : \A m \in hits : k <= m
             IN  Max(1, victim_criticality[first].crit)

\* lines 801-808: the first critical band holding the frequency decides
BandSeverity(severity, frequency) ==
    LET hits == {k \in 1..Len(critical_bands) :
                    critical_bands[k].low <= frequency
                    /\ frequency <= critical_bands[k].high}
    IN  IF hits = {} THEN severity
        ELSE LET first == CHOOSE k \in hits : \A m \in hits : k <= m
             IN  IF Contains(critical_bands[first].name, <<"G", "N", "S", "S">>)
                 THEN 5
                 ELSE Max(severity, critical_bands[first].sev)

\* lines 810-818; first with the higher orders lowered by two, without the
\* floor of line 818
TypeModifier_LoweredByTwo(severity, product_type) ==
    IF product_type \in {T_3H, T_2H, T_IM2} THEN Min(severity + 1, 5)
    ELSE IF product_type \in {T_IM4, T_IM5, T_IM7} THEN severity - 2
    ELSE severity

TypeModifier(severity, product_type) ==
    IF product_type = T_3H THEN Min(severity + 1, 5)
    ELSE IF product_type = T_2H THEN Min(severity + 1, 5)
    ELSE IF product_type = T_IM2 THEN Min(severity + 1, 5)
    ELSE IF product_type \in {T_IM4, T_IM5, T_IM7} THEN Max(severity - 1, 1)
    ELSE severity

\* lines 820-822
MultiAggressor(severity, aggressors) ==
    IF Contains(aggressors, <<",">>) \/ Contains(Lower(aggressors), <<" ", "a", "n", "d", " ">>)
    THEN Min(severity + 1, 5)
    ELSE severity

\* lines 824-827
PublicSafetyAggressor(severity, aggressors) ==
    IF Contains(aggressors, <<"L", "T", "E", "_", "B", "1", "3">>) \/ Contains(aggressors, <<"L", "T", "E", "_", "B", "1", "4">>)
    THEN Min(severity + 1, 5)
    ELSE severity

\* lines 829-832
BleWifi(severity, frequency, victim_code, aggressors) ==
    IF Contains(victim_code, <<"B", "L", "E">>) /\ Contains(aggressors, <<"W", "i", "F", "i">>)
       /\ 2400000 <= frequency /\ frequency <= 2500000
    THEN 5
    ELSE severity

\* lines 834-844
RiskSymbol(severity) ==
    IF severity >= 5 THEN SYM_CRITICAL
    ELSE IF severity >= 4 THEN SYM_HIGH
    ELSE IF severity >= 3 THEN SYM_MEDIUM
    ELSE IF severity >= 2 THEN SYM_LOW
    ELSE SYM_SAFE

Severity(frequency, victim_code, aggressors, product_type) ==
    BleWifi(
        PublicSafetyAggressor(
            MultiAggressor(
                TypeModifier(
                    BandSeverity(VictimSeverity(victim_code), frequency),
                    product_type),
                aggressors),
            aggressors),
        frequency, victim_code, aggressors)

\* (risk_symbol, severity)
assess_risk_severity(frequency, victim_code, aggressors, product_type) ==
    LET severity == Severity(frequency, victim_code, aggressors, product_type)
    IN  <<RiskSymbol(severity), severity>>

----------------------------------------------------------------------------
(* Product records and the loops of calculate_all_products *)

\* The concatenation of a list of lists: what the appends of a loop nest
\* leave in `results`, one inner list per iteration
RECURSIVE FlattenFrom(_, _)
FlattenFrom(ss, i) ==
    IF i > Len(ss) THEN <<>> ELSE ss[i] \o FlattenFrom(ss, i + 1)

Flatten(ss) == FlattenFrom(ss, 1)

\* b.tx_low == 0 and b.tx_high == 0
\* The test that takes every band for a transmitter
IsRxOnly_Never(b) == FALSE

IsRxOnly(b) == b.tx_low = 0 /\ b.tx_high = 0

\* The window test with both bounds excluded
InRxWindow_Exclusive(freq, victim, g) ==
    victim.rx_low - g < freq /\ freq < victim.rx_high + g

\* rx_low <= freq <= rx_high with the guard applied (lines 56-58)
InRxWindow(freq, victim, g) ==
    victim.rx_low - g <= freq /\ freq <= victim.rx_high + g

\* 'low' if edge == b.tx_low else 'high'
EdgeTag(edge, b) == IF edge = b.tx_low THEN <<"l", "o", "w">> ELSE <<"h", "i", "g", "h">>

\* "{pre}{b.code}_{low|high}{post}"
Term(pre, b, edge, post) == pre \o b.code \o <<"_">> \o EdgeTag(edge, b) \o post

SignStr(sign) == IF sign > 0 THEN <<" ", "+", " ">> ELSE <<" ", "-", " ">>

\* f"{b1.code}, {b2.code}"
PairAggressors(b1, b2) == b1.code \o CommaSpace \o b2.code

\* The victim loop that also gives the assessed severity to a product
\* outside the window
AssessedProducts_AlwaysAssessed(type, subtype, formula, freq, aggressors, details, bands, g) ==
    [vi \in 1..Len(bands) |->
        LET victim == bands[vi]
            risk   == InRxWindow(freq, victim, g)
            rs     == assess_risk_severity(freq, victim.code, aggressors, type)
        IN  [Type          |-> type,
             IM3_Type      |-> subtype,
             Formula       |-> formula,
             Frequency_MHz |-> Round2(freq, 1),
             Aggressors    |-> aggressors,
             Victims       |-> IF risk THEN victim.code ELSE <<>>,
             Risk          |-> IF risk THEN rs[1] ELSE SYM_SAFE,
             Severity      |-> rs[2],
             Details       |-> details]]

\* The victim loop of the branches that assess the severity when the
\* product is generated (harmonics, IM2, fundamental-only IM3): one record
\* per selected band
AssessedProducts(type, subtype, formula, freq, aggressors, details, bands, g) ==
    [vi \in 1..Len(bands) |->
        LET victim == bands[vi]
            risk   == InRxWindow(freq, victim, g)
            rs     == assess_risk_severity(freq, victim.code, aggressors, type)
        IN  [Type          |-> type,
             IM3_Type      |-> subtype,
             Formula       |-> formula,
             Frequency_MHz |-> Round2(freq, 1),
             Aggressors    |-> aggressors,
             Victims       |-> IF risk THEN victim.code ELSE <<>>,
             Risk          |-> IF risk THEN rs[1] ELSE SYM_SAFE,
             Severity      |-> IF risk THEN rs[2] ELSE 0,
             Details       |-> details]]

\* The victim loop of the branches that leave the severity to the dedup
\* pass (the other IM3 variants, IM4, IM5, IM7): records without Severity
LegacyProducts(type, subtype, formula, freq, aggressors, details, bands, g) ==
    [vi \in 1..Len(bands) |->
        LET victim == bands[vi]
            risk   == InRxWindow(freq, victim, g)
        IN  [Type          |-> type,
             IM3_Type      |-> subtype,
             Formula       |-> formula,
             Frequency_MHz |-> Round2(freq, 1),
             Aggressors    |-> aggressors,
             Victims       |-> IF risk THEN victim.code ELSE <<>>,
             Risk          |-> IF risk THEN SYM_LEGACY_RISK ELSE SYM_LEGACY_SAFE,
             Details       |-> details]]

Orders == <<2, 3, 4, 5>>

Signs == <<-1, 1>>

\* The lower transmit edge taken twice
TxEdges_LowOnly(b) == <<b.tx_low, b.tx_low>>

TxEdges(b) == <<b.tx_low, b.tx_high>>

\* lines 44-76
HarmonicProducts(bands, g) ==
    Flatten([bi \in 1..Len(bands) |->
        LET b == bands[bi] IN
        IF IsRxOnly(b) THEN <<>>
        ELSE Flatten([oi \in 1..Len(Orders) |->
            LET order == Orders[oi] IN
            Flatten([ei \in 1..2 |->
                LET edge == TxEdges(b)[ei]
                    freq == edge * order
                IN  IF edge = 0 THEN <<>>
                    ELSE AssessedProducts(
                            Digit(order) \o <<"H">>,
                            "Harmonic",
                            Digit(order) \o <<"MUL", "T", "x", "_">> \o EdgeTag(edge, b)
                                \o <<"(">> \o b.code \o <<")">>,
                            freq,
                            b.code,
                            <<"Harmonic", order, edge, freq, b.code>>,
                            bands, g)])])])

\* lines 103-154: the products of one edge pair (A, B) of the bands b1, b2;
\* first without the B - A of lines 131-154
IM2EdgePair_NoReverse(b1, b2, A, B, bands, g) ==
    LET aggr == PairAggressors(b1, b2)
        plus == A + B
        minus == A - B
    IN  (IF plus > 0
         THEN AssessedProducts(T_IM2, "Beat Frequency",
                  Term(<<>>, b1, A, <<>>) \o <<" ", "+", " ">> \o Term(<<>>, b2, B, <<>>),
                  plus, aggr, <<"IM2 Beat", A, "+", B, plus, b1.code, b2.code>>,
                  bands, g)
         ELSE <<>>)
        \o
        (IF minus > 0
         THEN AssessedProducts(T_IM2, "Beat Frequency",
                  Term(<<>>, b1, A, <<>>) \o <<" ", "-", " ">> \o Term(<<>>, b2, B, <<>>),
                  minus, aggr, <<"IM2 Beat", A, "-", B, minus, b1.code, b2.code>>,
                  bands, g)
         ELSE <<>>)

IM2EdgePair(b1, b2, A, B, bands, g) ==
    LET aggr == PairAggressors(b1, b2)
        plus == A + B
        minus == A - B
        reverse == B - A
    IN  (IF plus > 0
         THEN AssessedProducts(T_IM2, "Beat Frequency",
                  Term(<<>>, b1, A, <<>>) \o <<" ", "+", " ">> \o Term(<<>>, b2, B, <<>>),
                  plus, aggr, <<"IM2 Beat", A, "+", B, plus, b1.code, b2.code>>,
                  bands, g)
         ELSE <<>>)
        \o
        (IF minus > 0
         THEN AssessedProducts(T_IM2, "Beat Frequency",
                  Term(<<>>, b1, A, <<>>) \o <<" ", "-", " ">> \o Term(<<>>, b2, B, <<>>),
                  minus, aggr, <<"IM2 Beat", A, "-", B, minus, b1.code, b2.code>>,
                  bands, g)
         ELSE <<>>)
        \o
        (IF reverse > 0
         THEN AssessedProducts(T_IM2, "Beat Frequency",
                  Term(<<>>, b2, B, <<>>) \o <<" ", "-", " ">> \o Term(<<>>, b1, A, <<>>),
                  reverse, aggr, <<"IM2 Beat", B, "-", A, reverse, b2.code, b1.code>>,
                  bands, g)
         ELSE <<>>)

\* lines 78-154
IM2Products(bands, g) ==
    Flatten([i \in 1..Len(bands) |->
        LET b1 == bands[i] IN
        IF IsRxOnly(b1) THEN <<>>
        ELSE Flatten([k \in 1..(Len(bands) - i) |->
            LET b2 == bands[i + k] IN
            IF IsRxOnly(b2) THEN <<>>
            ELSE Flatten([ai \in 1..2 |->
                LET A == TxEdges(b1)[ai] IN
                IF A = 0 THEN <<>>
                ELSE Flatten([bi \in 1..2 |->
                    LET B == TxEdges(b2)[bi] IN
                    IF B = 0 THEN <<>>
                    ELSE IM2EdgePair(b1, b2, A, B, bands, g)])])])])

\* lines 173-203: 2A +/- B, assessed when generated; zero edges are skipped
IM3FundamentalA(b1, b2, bands, g) ==
    Flatten([ai \in 1..2 |->
        LET A == TxEdges(b1)[ai] IN
        IF A = 0 THEN <<>>
        ELSE Flatten([bi \in 1..2 |->
            LET B == TxEdges(b2)[bi] IN
            IF B = 0 THEN <<>>
            ELSE Flatten([si \in 1..2 |->
                LET sign == Signs[si]
                    freq1 == 2 * A + sign * B
                IN  AssessedProducts(T_IM3, "Fundamental-only",
                        Term(<<"2", "MUL">>, b1, A, <<>>) \o SignStr(sign)
                            \o Term(<<>>, b2, B, <<>>),
                        freq1, PairAggressors(b1, b2),
                        <<"IM3 (Fundamental-only)", 2, A, sign, B, freq1,
                          b1.code, b2.code>>,
                        bands, g)])])])

\* lines 204-229: 2B +/- A, assessed when generated
IM3FundamentalB(b1, b2, bands, g) ==
    Flatten([bi \in 1..2 |->
        LET B == TxEdges(b2)[bi] IN
        Flatten([ai \in 1..2 |->
            LET A == TxEdges(b1)[ai] IN
            Flatten([si \in 1..2 |->
                LET sign == Signs[si]
                    freq2 == 2 * B + sign * A
                IN  AssessedProducts(T_IM3, "Fundamental-only",
                        Term(<<"2", "MUL">>, b2, B, <<>>) \o SignStr(sign)
                            \o Term(<<>>, b1, A, <<>>),
                        freq2, PairAggressors(b1, b2),
                        <<"IM3 (Fundamental-only)", 2, B, sign, A, freq2,
                          b2.code, b1.code>>,
                        bands, g)])])])

\* lines 230-248: 2(2A) +/- B
IM3HarmonicA(b1, b2, bands, g) ==
    Flatten([ai \in 1..2 |->
        LET A == TxEdges(b1)[ai] IN
        Flatten([bi \in 1..2 |->
            LET B == TxEdges(b2)[bi] IN
            Flatten([si \in 1..2 |->
                LET sign == Signs[si]
                    freq3 == 2 * (2 * A) + sign * B
                IN  LegacyProducts(T_IM3, "2nd Harmonic of A vs Fundamental B",
                        Term(<<"2", "MUL", "(", "2", "MUL">>, b1, A, <<")">>) \o SignStr(sign)
                            \o Term(<<>>, b2, B, <<>>),
                        freq3, PairAggressors(b1, b2),
                        <<"IM3 (2nd Harmonic of A vs Fundamental B)", A, sign, B,
                          freq3, b1.code, b2.code>>,
                        bands, g)])])])

\* lines 249-266: 2(2B) +/- A
\* The pair loop without the branch of the 2nd harmonic of B
IM3HarmonicB_Missing(b1, b2, bands, g) == <<>>

IM3HarmonicB(b1, b2, bands, g) ==
    Flatten([bi \in 1..2 |->
        LET B == TxEdges(b2)[bi] IN
        Flatten([ai \in 1..2 |->
            LET A == TxEdges(b1)[ai] IN
            Flatten([si \in 1..2 |->
                LET sign == Signs[si]
                    freq4 == 2 * (2 * B) + sign * A
                IN  LegacyProducts(T_IM3, "2nd Harmonic of B vs Fundamental A",
                        Term(<<"2", "MUL", "(", "2", "MUL">>, b2, B, <<")">>) \o SignStr(sign)
                            \o Term(<<>>, b1, A, <<>>),
                        freq4, PairAggressors(b1, b2),
                        <<"IM3 (2nd Harmonic of B vs Fundamental A)", B, sign, A,
                          freq4, b2.code, b1.code>>,
                        bands, g)])])])

\* lines 267-285: 2A +/- 2B
IM3BothA(b1, b2, bands, g) ==
    Flatten([ai \in 1..2 |->
        LET A == TxEdges(b1)[ai] IN
        Flatten([bi \in 1..2 |->
            LET B == TxEdges(b2)[bi] IN
            Flatten([si \in 1..2 |->
                LET sign == Signs[si]
                    freq5 == 2 * A + sign * 2 * B
                IN  LegacyProducts(T_IM3, "2nd Harmonic of A vs 2nd Harmonic of B",
                        Term(<<"2", "MUL">>, b1, A, <<>>) \o SignStr(sign)
                            \o Term(<<"2", "MUL">>, b2, B, <<>>),
                        freq5, PairAggressors(b1, b2),
                        <<"IM3 (2nd Harmonic of A vs 2nd Harmonic of B)", A, sign, B,
                          freq5, b1.code, b2.code>>,
                        bands, g)])])])

\* lines 286-303: 2B +/- 2A
IM3BothB(b1, b2, bands, g) ==
    Flatten([bi \in 1..2 |->
        LET B == TxEdges(b2)[bi] IN
        Flatten([ai \in 1..2 |->
            LET A == TxEdges(b1)[ai] IN
            Flatten([si \in 1..2 |->
                LET sign == Signs[si]
                    freq6 == 2 * B + sign * 2 * A
                IN  LegacyProducts(T_IM3, "2nd Harmonic of B vs 2nd Harmonic of A",
                        Term(<<"2", "MUL">>, b2, B, <<>>) \o SignStr(sign)
                            \o Term(<<"2", "MUL">>, b1, A, <<>>),
                        freq6, PairAggressors(b1, b2),
                        <<"IM3 (2nd Harmonic of B vs 2nd Harmonic of A)", B, sign, A,
                          freq6, b2.code, b1.code>>,
                        bands, g)])])])

Im4Ext == <<(<<3, 1>>), (<<1, 3>>)>>

\* lines 304-341: 2A + 2B, then 3A + B and A + 3B
IM4Products(b1, b2, bands, g) ==
    Flatten([ai \in 1..2 |->
        LET A == TxEdges(b1)[ai] IN
        Flatten([bi \in 1..2 |->
            LET B == TxEdges(b2)[bi]
                freq4_std == 2 * A + 2 * B
            IN  LegacyProducts(T_IM4, "Higher-order",
                    Term(<<"2", "MUL">>, b1, A, <<>>) \o <<" ", "+", " ">> \o Term(<<"2", "MUL">>, b2, B, <<>>),
                    freq4_std, PairAggressors(b1, b2),
                    <<"IM4", 2, A, 2, B, freq4_std, b1.code, b2.code>>,
                    bands, g)
                \o
                Flatten([ci \in 1..Len(Im4Ext) |->
                    LET coeff1 == Im4Ext[ci][1]
                        coeff2 == Im4Ext[ci][2]
                        freq4_ext == coeff1 * A + coeff2 * B
                    IN  LegacyProducts(T_IM4, "Higher-order",
                            Term(Digit(coeff1) \o <<"MUL">>, b1, A, <<>>) \o <<" ", "+", " ">>
                                \o Term(Digit(coeff2) \o <<"MUL">>, b2, B, <<>>),
                            freq4_ext, PairAggressors(b1, b2),
                            <<"IM4", coeff1, A, coeff2, B, freq4_ext,
                              b1.code, b2.code>>,
                            bands, g)])])])

\* lines 342-380: 3A +/- 2B, then 2A +/- 3B; first the IM5 of 3A +/- 2B
\* alone, without the 2A +/- 3B of lines 362-380
IM5Products_StandardOnly(b1, b2, bands, g) ==
    Flatten([ai \in 1..2 |->
        LET A == TxEdges(b1)[ai] IN
        Flatten([bi \in 1..2 |->
            LET B == TxEdges(b2)[bi] IN
            Flatten([si \in 1..2 |->
                LET sign == Signs[si]
                    freq5_std == 3 * A + sign * 2 * B
                IN  LegacyProducts(T_IM5, "Higher-order",
                        Term(<<"3", "MUL">>, b1, A, <<>>) \o SignStr(sign)
                            \o Term(<<"2", "MUL">>, b2, B, <<>>),
                        freq5_std, PairAggressors(b1, b2),
                        <<"IM5", 3, A, sign, 2, B, freq5_std, b1.code, b2.code>>,
                        bands, g)])])])

IM5Products(b1, b2, bands, g) ==
    Flatten([ai \in 1..2 |->
        LET A == TxEdges(b1)[ai] IN
        Flatten([bi \in 1..2 |->
            LET B == TxEdges(b2)[bi] IN
            Flatten([si \in 1..2 |->
                LET sign == Signs[si]
                    freq5_std == 3 * A + sign * 2 * B
                IN  LegacyProducts(T_IM5, "Higher-order",
                        Term(<<"3", "MUL">>, b1, A, <<>>) \o SignStr(sign)
                            \o Term(<<"2", "MUL">>, b2, B, <<>>),
                        freq5_std, PairAggressors(b1, b2),
                        <<"IM5", 3, A, sign, 2, B, freq5_std, b1.code, b2.code>>,
                        bands, g)])
            \o
            Flatten([si \in 1..2 |->
                LET sign == Signs[si]
                    freq5_ext == 2 * A + sign * 3 * B
                IN  LegacyProducts(T_IM5, "Higher-order",
                        Term(<<"2", "MUL">>, b1, A, <<>>) \o SignStr(sign)
                            \o Term(<<"3", "MUL">>, b2, B, <<>>),
                        freq5_ext, PairAggressors(b1, b2),
                        <<"IM5", 2, A, sign, 3, B, freq5_ext, b1.code, b2.code>>,
                        bands, g)])])])

\* lines 381-400: 4A +/- 3B
IM7Products(b1, b2, bands, g) ==
    Flatten([ai \in 1..2 |->
        LET A == TxEdges(b1)[ai] IN
        Flatten([bi \in 1..2 |->
            LET B == TxEdges(b2)[bi] IN
            Flatten([si \in 1..2 |->
                LET sign == Signs[si]
                    freq7 == 4 * A + sign * 3 * B
                IN  LegacyProducts(T_IM7, "Higher-order",
                        Term(<<"4", "MUL">>, b1, A, <<>>) \o SignStr(sign)
                            \o Term(<<"3", "MUL">>, b2, B, <<>>),
                        freq7, PairAggressors(b1, b2),
                        <<"IM7", 4, A, sign, 3, B, freq7, b1.code, b2.code>>,
                        bands, g)])])])

\* The pair loop with the IM7 branch under the IM5 toggle
PairProducts_IM7WithIM5(bands, g, im4, im5, im7) ==
    Flatten([i \in 1..Len(bands) |->
        LET b1 == bands[i] IN
        IF IsRxOnly(b1) THEN <<>>
        ELSE Flatten([j \in 1..Len(bands) |->
            LET b2 == bands[j] IN
            IF i = j \/ IsRxOnly(b2) THEN <<>>
            ELSE IM3FundamentalA(b1, b2, bands, g)
                 \o IM3FundamentalB(b1, b2, bands, g)
                 \o IM3HarmonicA(b1, b2, bands, g)
                 \o IM3HarmonicB(b1, b2, bands, g)
                 \o IM3BothA(b1, b2, bands, g)
                 \o IM3BothB(b1, b2, bands, g)
                 \o (IF im4 THEN IM4Products(b1, b2, bands, g) ELSE <<>>)
                 \o (IF im5 THEN IM5Products(b1, b2, bands, g) ELSE <<>>)
                 \o (IF im5 THEN IM7Products(b1, b2, bands, g) ELSE <<>>)])])

\* lines 156-400: the loop over the ordered pairs of transmitting bands
PairProducts(bands, g, im4, im5, im7) ==
    Flatten([i \in 1..Len(bands) |->
        LET b1 == bands[i] IN
        IF IsRxOnly(b1) THEN <<>>
        ELSE Flatten([j \in 1..Len(bands) |->
            LET b2 == bands[j] IN
            IF i = j \/ IsRxOnly(b2) THEN <<>>
            ELSE IM3FundamentalA(b1, b2, bands, g)
                 \o IM3FundamentalB(b1, b2, bands, g)
                 \o IM3HarmonicA(b1, b2, bands, g)
                 \o IM3HarmonicB(b1, b2, bands, g)
                 \o IM3BothA(b1, b2, bands, g)
                 \o IM3BothB(b1, b2, bands, g)
                 \o (IF im4 THEN IM4Products(b1, b2, bands, g) ELSE <<>>)
                 \o (IF im5 THEN IM5Products(b1, b2, bands, g) ELSE <<>>)
                 \o (IF im7 THEN IM7Products(b1, b2, bands, g) ELSE <<>>)])])

\* The check that leaves out a gap equal to the margin
aclr_check_Strict(tx_high, rx_low, margin) == Abs(tx_high - rx_low) < margin

\* lines 522-524
aclr_check(tx_high, rx_low, margin) == Abs(tx_high - rx_low) <= margin

\* lines 401-423
ACLRProducts(bands, margin) ==
    IF margin > 0
    THEN Flatten([i \in 1..Len(bands) |->
            LET b1 == bands[i] IN
            IF IsRxOnly(b1) THEN <<>>
            ELSE Flatten([j \in 1..Len(bands) |->
                LET b2 == bands[j]
                    aclr_risk == aclr_check(b1.tx_high, b2.rx_low, margin)
                IN  IF i = j THEN <<>>
                    ELSE <<[Type          |-> T_ACLR,
                            IM3_Type      |-> "Adjacent-channel",
                            Formula       |-> b1.code \o <<"_", "t", "x", "_", "h", "i", "g", "h", " ", "v", "s", " ">>
                                              \o b2.code \o <<"_", "r", "x", "_", "l", "o", "w">>,
                            Frequency_MHz |-> Round2(b1.tx_high + b2.rx_low, 2),
                            Aggressors    |-> b1.code,
                            Victims       |-> IF aclr_risk THEN b2.code ELSE <<>>,
                            Risk          |-> IF aclr_risk THEN SYM_LEGACY_RISK
                                              ELSE SYM_LEGACY_SAFE,
                            Details       |-> <<"ACLR", b1.tx_high, b2.rx_low,
                                                Abs(b1.tx_high - b2.rx_low)>>]>>])])
    ELSE <<>>

----------------------------------------------------------------------------
(* Overlap checks, lines 12-42 *)

HasTx(b) == ~(b.tx_low = 0 /\ b.tx_high = 0)

\* The alerts of one pair with the receive check limited, as the transmit
\* check is, to two bands that transmit
PairAlerts_RxOfTransmitters(b1, b2, g) ==
    (IF HasTx(b1) /\ HasTx(b2)
        /\ ~(b1.tx_high + g < b2.tx_low - g \/ b2.tx_high + g < b1.tx_low - g)
     THEN <<(<<"Tx band overlap", b1.code, b1.tx_low, b1.tx_high,
               b2.code, b2.tx_low, b2.tx_high>>)>>
     ELSE <<>>)
    \o
    (IF HasTx(b1) /\ HasTx(b2)
        /\ ~(b1.rx_high + g < b2.rx_low - g \/ b2.rx_high + g < b1.rx_low - g)
     THEN <<(<<"Rx band overlap", b1.code, b1.rx_low, b1.rx_high,
               b2.code, b2.rx_low, b2.rx_high>>)>>
     ELSE <<>>)
    \o
    (IF HasTx(b1)
        /\ ~(b1.tx_high + g < b2.rx_low - g \/ b1.tx_low - g > b2.rx_high + g)
     THEN <<(<<"Tx overlaps Rx", b1.code, b2.code>>)>>
     ELSE <<>>)
    \o
    (IF HasTx(b2)
        /\ ~(b2.tx_high + g < b1.rx_low - g \/ b2.tx_low - g > b1.rx_high + g)
     THEN <<(<<"Tx overlaps Rx", b2.code, b1.code>>)>>
     ELSE <<>>)

\* The alerts of one pair (b1, b2), in the order the code appends them
PairAlerts(b1, b2, g) ==
    (IF HasTx(b1) /\ HasTx(b2)
        /\ ~(b1.tx_high + g < b2.tx_low - g \/ b2.tx_high + g < b1.tx_low - g)
     THEN <<(<<"Tx band overlap", b1.code, b1.tx_low, b1.tx_high,
               b2.code, b2.tx_low, b2.tx_high>>)>>
     ELSE <<>>)
    \o
    (IF ~(b1.rx_high + g < b2.rx_low - g \/ b2.rx_high + g < b1.rx_low - g)
     THEN <<(<<"Rx band overlap", b1.code, b1.rx_low, b1.rx_high,
               b2.code, b2.rx_low, b2.rx_high>>)>>
     ELSE <<>>)
    \o
    (IF HasTx(b1)
        /\ ~(b1.tx_high + g < b2.rx_low - g \/ b1.tx_low - g > b2.rx_high + g)
     THEN <<(<<"Tx overlaps Rx", b1.code, b2.code>>)>>
     ELSE <<>>)
    \o
    (IF HasTx(b2)
        /\ ~(b2.tx_high + g < b1.rx_low - g \/ b2.tx_low - g > b1.rx_high + g)
     THEN <<(<<"Tx overlaps Rx", b2.code, b1.code>>)>>
     ELSE <<>>)

OverlapAlerts(bands, g) ==
    Flatten([i \in 1..Len(bands) |->
        Flatten([k \in 1..(Len(bands) - i) |->
            PairAlerts(bands[i], bands[i + k], g)])])

----------------------------------------------------------------------------
(* The dedup pass, lines 424-458 *)

HasSeverity(r) == "Severity" \in DOMAIN r

\* The pass that assesses the records with a victim and leaves the safe
\* legacy records as the generators made them
UpdateLegacy_VictimsOnly(r) ==
    IF r.Risk = SYM_LEGACY_RISK /\ ~HasSeverity(r) /\ r.Victims # <<>>
    THEN LET rs == assess_risk_severity(r.Frequency_MHz, r.Victims,
                                        r.Aggressors, r.Type)
         IN  ("Severity" :> rs[2]) @@ [r EXCEPT !.Risk = rs[1]]
    ELSE r

\* The pass that renews the symbol of a safe record without giving it a
\* Severity
UpdateLegacy_SymbolOnly(r) ==
    IF r.Risk \in {SYM_LEGACY_RISK, SYM_LEGACY_SAFE} /\ ~HasSeverity(r)
    THEN IF r.Risk = SYM_LEGACY_RISK /\ r.Victims # <<>>
         THEN LET rs == assess_risk_severity(r.Frequency_MHz, r.Victims,
                                             r.Aggressors, r.Type)
              IN  ("Severity" :> rs[2]) @@ [r EXCEPT !.Risk = rs[1]]
         ELSE IF r.Risk = SYM_LEGACY_SAFE
         THEN [r EXCEPT !.Risk = SYM_SAFE]
         ELSE r
    ELSE r

\* lines 428-441: the record as the pass leaves it (the dict is changed in
\* place)
UpdateLegacy(r) ==
    IF r.Risk \in {SYM_LEGACY_RISK, SYM_LEGACY_SAFE} /\ ~HasSeverity(r)
    THEN IF r.Risk = SYM_LEGACY_RISK /\ r.Victims # <<>>
         THEN LET rs == assess_risk_severity(r.Frequency_MHz, r.Victims,
                                             r.Aggressors, r.Type)
              IN  ("Severity" :> rs[2]) @@ [r EXCEPT !.Risk = rs[1]]
         ELSE IF r.Risk = SYM_LEGACY_SAFE
         THEN ("Severity" :> 0) @@ [r EXCEPT !.Risk = SYM_SAFE]
         ELSE r
    ELSE r

\* The key with the aggressors as listed, in the order of the pair loop
DedupKey_AsListed(r) ==
    <<r.Type,
      IF r.Frequency_MHz # 0 THEN Round2(r.Frequency_MHz, 1) ELSE 0,
      r.Aggressors,
      r.Victims>>

\* lines 443-455
DedupKey(r) ==
    <<r.Type,
      IF r.Frequency_MHz # 0 THEN Round2(r.Frequency_MHz, 1) ELSE 0,
      IF r.Aggressors # <<>> THEN SortedStrs(Split(r.Aggressors)) ELSE <<>>,
      r.Victims>>

\* lines 456-458: the indices lo..hi whose key is seen for the first time
\* within lo..hi, in order (the loop over lo..hi starting from an empty
\* `seen`)
RECURSIVE FirstSeen(_, _, _)
FirstSeen(keys, lo, hi) ==
    IF lo > hi THEN <<>>
    ELSE IF lo = hi THEN <<lo>>
    ELSE LET mid   == (lo + hi) \div 2
             left  == FirstSeen(keys, lo, mid)
             right == FirstSeen(keys, mid + 1, hi)
             seen  == {keys[left[k]] : k \in 1..Len(left)}
         IN  left \o SelectSeq(right, LAMBDA i : keys[i] \notin seen)

Deduplicated(rs) ==
    LET keys == [i \in 1..Len(rs) |-> DedupKey(rs[i])] \o <<>>
        kept == FirstSeen(keys, 1, Len(rs))
    IN  [k \in 1..Len(kept) |-> rs[kept[k]]]

----------------------------------------------------------------------------
(* The sort, lines 459-495 *)

get_signal_level_priority(r) ==
    IF r.Type = T_2H THEN 1
    ELSE IF r.Type = T_IM2 THEN 2
    ELSE IF r.Type = T_3H THEN 3
    ELSE IF r.Type = T_IM3 THEN 4
    ELSE IF r.Type = T_4H THEN 5
    ELSE IF r.Type = T_IM4 THEN 6
    ELSE IF r.Type = T_5H THEN 7
    ELSE IF r.Type = T_IM5 THEN 8
    ELSE IF r.Type = T_IM7 THEN 9
    ELSE IF r.Type = T_ACLR THEN 10
    ELSE 99

SeverityOf(r) == IF HasSeverity(r) THEN r.Severity ELSE 0

\* The key that puts the low severities first
sort_key_SeverityAscending(r) ==
    <<SeverityOf(r), get_signal_level_priority(r), r.Type, r.Formula,
      r.Frequency_MHz>>

sort_key(r) ==
    LET severity == SeverityOf(r)
        severity_priority == IF severity > 0 THEN 6 - severity ELSE 10
    IN  <<severity_priority, get_signal_level_priority(r), r.Type, r.Formula,
          r.Frequency_MHz>>

\* Python's comparison of two sort keys: -1, 0 or 1
KeyCmp(k1, k2) ==
    IF k1[1] # k2[1] THEN (IF k1[1] < k2[1] THEN -1 ELSE 1)
    ELSE IF k1[2] # k2[2] THEN (IF k1[2] < k2[2] THEN -1 ELSE 1)
    ELSE IF StrCmp(k1[3], k2[3]) # 0 THEN StrCmp(k1[3], k2[3])
    ELSE IF StrCmp(k1[4], k2[4]) # 0 THEN StrCmp(k1[4], k2[4])
    ELSE IF k1[5] # k2[5] THEN (IF k1[5] < k2[5] THEN -1 ELSE 1)
    ELSE 0

\* list.sort(key=sort_key): the stable sort.  The element at index i goes
\* behind the elements with a smaller key and the elements with an equal
\* key and a smaller index.
Sorted(rs) ==
    LET n      == Len(rs)
        keys   == [i \in 1..n |-> sort_key(rs[i])] \o <<>>
        before(i, j) ==
            LET c == KeyCmp(keys[i], keys[j]) IN c < 0 \/ (c = 0 /\ i < j)
        order  == SortSeq([i \in 1..n |-> i], before)
    IN  [p \in 1..n |-> rs[order[p]]]

----------------------------------------------------------------------------
(* The filter, lines 497-512 *)

\* The filter that keeps the products of frequency 0
ValidResults_NonNegative(rs) == SelectSeq(rs, LAMBDA r : r.Frequency_MHz >= 0)

ValidResults(rs) == SelectSeq(rs, LAMBDA r : r.Frequency_MHz > 0)

InvalidCount(rs) == Len(rs) - Len(ValidResults(rs))

FilterNote_Always(rs) ==
    <<(<<"Note: products with invalid frequencies were filtered out",
         InvalidCount(rs)>>)>>

FilterNote(rs) ==
    IF InvalidCount(rs) > 0
    THEN <<(<<"Note: products with invalid frequencies were filtered out",
              InvalidCount(rs)>>)>>
    ELSE <<>>

----------------------------------------------------------------------------
(* The inputs *)

\* The number of bands of the registry that can be selected
NumBands == 5

\* The registry bands that can be selected
Selectable ==
    {BAND_LIST[i] : i \in 1..(IF NumBands <= Len(BAND_LIST) THEN NumBands
                              ELSE Len(BAND_LIST))}

\* Selections with a case of their own: an IM2 product of two bands inside
\* the window of a receive-only third band, two bands with the same
\* windows, two receive-only bands with the same window, a band whose
\* upper transmit edge is 2 MHz below the receive window of another next
\* to two bands of the same lower receive edge, and the bands of the application's self-test next to a receive-only band
SCENARIOS ==
    <<(<<LTE_B13, LTE_B14, GNSS_L1>>),
      (<<WiFi_2G, ISM_24>>),
      (<<Galileo_E1, GNSS_L1>>),
      (<<LTE_B40, BLE, Galileo_E1, GNSS_L1>>),
      (<<WiFi_2G, LTE_B1, GNSS_L1>>)>>

\* The number of scenarios that can be selected
NumScenarios == 4

\* The selections: the lists of at most two distinct selectable bands, and
\* the scenarios
Selections ==
    {<<>>} \cup {<<a>> : a \in Selectable}
    \cup {s \in Selectable \X Selectable : s[1] # s[2]}
    \cup {SCENARIOS[i] : i \in 1..(IF NumScenarios <= Len(SCENARIOS)
                                   THEN NumScenarios ELSE Len(SCENARIOS))}

Guards == {0, 1000}

\* ACLR off, and a margin of 2 MHz
AclrMargins == {0, 2000}

----------------------------------------------------------------------------
(* calculate_all_products *)

Init ==
    /\ pc = "overlap"
    /\ selected_bands \in Selections
    /\ guard \in Guards
    /\ imd2 \in BOOLEAN
    /\ imd4 \in BOOLEAN
    /\ imd5 \in BOOLEAN
    /\ imd7 \in BOOLEAN
    /\ aclr_margin \in AclrMargins
    /\ results = <<>>
    /\ overlap_alerts = <<>>
    /\ deduped = <<>>
    /\ valid_results = <<>>
    /\ calls = <<>>
    /\ rets = <<>>

args == <<selected_bands, guard, imd2, imd4, imd5, imd7, aclr_margin>>

\* lines 12-42
OverlapChecks ==
    /\ pc = "overlap"
    /\ overlap_alerts' = overlap_alerts \o OverlapAlerts(selected_bands, guard)
    /\ pc' = "harmonics"
    /\ UNCHANGED <<args, calls, rets, results, deduped, valid_results>>

\* lines 44-76
Harmonics ==
    /\ pc = "harmonics"
    /\ results' = results \o HarmonicProducts(selected_bands, guard)
    /\ pc' = "im2"
    /\ UNCHANGED <<args, calls, rets, overlap_alerts, deduped, valid_results>>

\* lines 78-154
IM2Beats ==
    /\ pc = "im2"
    /\ results' = IF imd2 THEN results \o IM2Products(selected_bands, guard)
                  ELSE results
    /\ pc' = "pairs"
    /\ UNCHANGED <<args, calls, rets, overlap_alerts, deduped, valid_results>>

\* lines 156-400
PairLoop ==
    /\ pc = "pairs"
    /\ results' = results \o PairProducts(selected_bands, guard, imd4, imd5, imd7)
    /\ pc' = "aclr"
    /\ UNCHANGED <<args, calls, rets, overlap_alerts, deduped, valid_results>>

\* lines 401-423
ACLR ==
    /\ pc = "aclr"
    /\ results' = results \o ACLRProducts(selected_bands, aclr_margin)
    /\ pc' = "dedup"
    /\ UNCHANGED <<args, calls, rets, overlap_alerts, deduped, valid_results>>

\* lines 424-458: the records are updated in place, then the first record
\* of every key is kept
Deduplicate ==
    /\ pc = "dedup"
    /\ results' = [i \in 1..Len(results) |-> UpdateLegacy(results[i])]
    /\ deduped' = Deduplicated(results')
    /\ pc' = "sort"
    /\ UNCHANGED <<args, calls, rets, overlap_alerts, valid_results>>

\* lines 459-495
Sort ==
    /\ pc = "sort"
    /\ deduped' = Sorted(deduped)
    /\ pc' = "filter"
    /\ UNCHANGED <<args, calls, rets, results, overlap_alerts, valid_results>>

\* lines 497-512
Filter ==
    /\ pc = "filter"
    /\ valid_results' = ValidResults(deduped)
    /\ overlap_alerts' = overlap_alerts \o FilterNote(deduped)
    /\ pc' = "done"
    /\ UNCHANGED <<args, calls, rets, results, deduped>>

Next ==
    \/ OverlapChecks
    \/ Harmonics
    \/ IM2Beats
    \/ PairLoop
    \/ ACLR
    \/ Deduplicate
    \/ Sort
    \/ Filter

Spec == Init /\ [][Next]_vars

----------------------------------------------------------------------------
(* The stages as functions, and raw products that arrive in another order *)

\* The raw product list that the generators leave, lines 44-423
RawProducts(bands, g, im2, im4, im5, im7, margin) ==
    HarmonicProducts(bands, g)
    \o (IF im2 THEN IM2Products(bands, g) ELSE <<>>)
    \o PairProducts(bands, g, im4, im5, im7)
    \o ACLRProducts(bands, margin)

\* The list that the Deduplicator/Ranker makes of a raw product list,
\* lines 424-512
Ranked(raw) ==
    ValidResults(Sorted(Deduplicated([i \in 1..Len(raw) |->
                                         UpdateLegacy(raw[i])])))

\* The ways in which the raw list is reordered: back to front, the second
\* half before the first (a generator that starts late finishes first),
\* and the records of the odd places before those of the even places (two
\* generators that take turns)
Reorderings == {"reversed", "halves swapped", "interleaved"}

Reordered(rs, way) ==
    LET n == Len(rs)
        h == n \div 2
    IN  CASE way = "reversed" -> [i \in 1..n |-> rs[n + 1 - i]]
          [] way = "halves swapped" ->
                [i \in 1..n |-> IF i <= n - h THEN rs[h + i] ELSE rs[i - (n - h)]]
          [] way = "interleaved" ->
                [i \in 1..n |-> IF i <= n - h THEN rs[2 * i - 1]
                                ELSE rs[2 * (i - (n - h))]]

\* The last generator ends and the merge hands over the raw list in
\* another order
ACLRReordered ==
    /\ pc = "aclr"
    /\ \E way \in Reorderings :
          results' = Reordered(results \o ACLRProducts(selected_bands, aclr_margin),
                               way)
    /\ pc' = "dedup"
    /\ UNCHANGED <<args, calls, rets, overlap_alerts, deduped, valid_results>>

ReorderNext ==
    \/ OverlapChecks
    \/ Harmonics
    \/ IM2Beats
    \/ PairLoop
    \/ ACLR
    \/ ACLRReordered
    \/ Deduplicate
    \/ Sort
    \/ Filter

ReorderSpec == Init /\ [][ReorderNext]_vars

\* The orders in which the bands of a selection are listed: every order of
\* up to three bands; of more bands the order given, that order reversed,
\* rotated by one place, and with its first two bands swapped
BandOrders(s) ==
    LET n == Len(s) IN
    IF n <= 3
    THEN {[i \in 1..n |-> s[p[i]]] : p \in Permutations(1..n)}
    ELSE {s,
          [i \in 1..n |-> s[n + 1 - i]],
          [i \in 1..n |-> s[(i % n) + 1]],
          [i \in 1..n |-> IF i = 1 THEN s[2] ELSE IF i = 2 THEN s[1] ELSE s[i]]}

PermutedSelections == UNION {BandOrders(s) : s \in Selections}

PermutedInit ==
    /\ pc = "overlap"
    /\ selected_bands \in PermutedSelections
    /\ guard \in Guards
    /\ imd2 \in BOOLEAN
    /\ imd4 \in BOOLEAN
    /\ imd5 \in BOOLEAN
    /\ imd7 \in BOOLEAN
    /\ aclr_margin \in AclrMargins
    /\ results = <<>>
    /\ overlap_alerts = <<>>
    /\ deduped = <<>>
    /\ valid_results = <<>>
    /\ calls = <<>>
    /\ rets = <<>>

PermutedSpec == PermutedInit /\ [][Next]_vars

----------------------------------------------------------------------------
(* Direct calls of assess_risk_severity *)

\* calculate_all_products is not running
Idle ==
    /\ pc = "idle"
    /\ selected_bands = <<>>
    /\ guard = 0
    /\ imd2 = FALSE
    /\ imd4 = FALSE
    /\ imd5 = FALSE
    /\ imd7 = FALSE
    /\ aclr_margin = 0
    /\ results = <<>>
    /\ overlap_alerts = <<>>
    /\ deduped = <<>>
    /\ valid_results = <<>>

calculator == <<pc, args, results, overlap_alerts, deduped, valid_results>>

\* The bands a victim code is taken from
VictimBands ==
    {WiFi_2G, LTE_B1, GNSS_L1, LTE_B13, BLE, HaLow_NA, LTE_B14, ISM_24,
     Galileo_E1}

\* Victim codes: the codes of the bands, codes of the criticality table
\* that no band above has, and a code the table does not know
VictimCodes ==
    {b.code : b \in VictimBands}
    \cup {<<"G", "N", "S", "S", "_", "L", "2">>,
          <<"G", "N", "S", "S", "_", "L", "5">>,
          <<"W", "i", "F", "i", "_", "5", "G">>,
          <<"L", "T", "E", "_", "B", "3">>}

\* Aggressor strings: one band, two bands, a public-safety band, and the
\* " and " form
AggressorStrings ==
    {<<"L", "T", "E", "_", "B", "1">>,
     <<"W", "i", "F", "i", "_", "2", "G">>,
     <<"L", "T", "E", "_", "B", "1", "3">>,
     <<"H", "a", "L", "o", "w", "_", "N", "A">>,
     <<"W", "i", "F", "i", "_", "2", "G", ",", " ", "L", "T", "E", "_", "B", "1">>,
     <<"L", "T", "E", "_", "B", "1", "3", ",", " ", "L", "T", "E", "_", "B", "1", "4">>,
     <<"B", "L", "E", ",", " ", "W", "i", "F", "i", "_", "2", "G">>,
     <<"L", "T", "E", "_", "B", "1", " ", "a", "n", "d", " ", "B", "L", "E">>}

ProductTypes ==
    {T_2H, T_3H, T_4H, T_5H, T_IM2, T_IM3, T_IM4, T_IM5, T_IM7, T_ACLR}

\* Frequencies (kHz): the edges, the inside and the outside of the
\* critical windows, and frequencies that no window holds
ProbeFrequencies ==
    {1574999, 1575000, 1575420, 1576000, 1576001,
     1227000, 1227600, 1228000, 1176000, 1176450, 1177000, 1170000,
     2399000, 2400000, 2441000, 2500000, 2501000,
     5800000, 5200000, 758000, 765000, 775000, 860000,
     915000, 2140000, 3960000}

SeverityCall(frequency, victim_code, aggressors, product_type) ==
    [fn |-> "assess_risk_severity", frequency |-> frequency,
     victim_code |-> victim_code, aggressors |-> aggressors,
     product_type |-> product_type]

\* The centre of the receive window of a band
RxCentre(b) == (b.rx_low + b.rx_high) \div 2

\* The offset from the centre that is compared with the centre, kHz
Offsets == {-50000, 50000}

\* One call, and two calls for the same victim, aggressors and type: on
\* the centre of the victim's receive window and off the centre
SeverityCalls ==
    {<<SeverityCall(c[1], c[2], c[3], c[4])>> :
        c \in ProbeFrequencies \X VictimCodes \X AggressorStrings \X ProductTypes}
    \cup
    {<<SeverityCall(RxCentre(c[1]), c[1].code, c[2], c[3]),
       SeverityCall(RxCentre(c[1]) + c[4], c[1].code, c[2], c[3])>> :
        c \in VictimBands \X AggressorStrings \X ProductTypes \X Offsets}

SeverityInit ==
    /\ Idle
    /\ calls \in SeverityCalls
    /\ rets = <<>>

\* The next call is made: (risk_symbol, severity) is returned
Assess ==
    /\ pc = "idle"
    /\ Len(rets) < Len(calls)
    /\ LET c == calls[Len(rets) + 1] IN
        /\ c.fn = "assess_risk_severity"
        /\ rets' = Append(rets, assess_risk_severity(c.frequency, c.victim_code,
                                                     c.aggressors, c.product_type))
    /\ UNCHANGED <<calculator, calls>>

SeverityNext == Assess

SeveritySpec == SeverityInit /\ [][SeverityNext]_vars

\* One call for every product type, for the same frequency, victim code and
\* aggressor string: the types that lines 810-815 raise, the types they
\* leave alone, the types that lines 816-818 lower
TypeSweep == <<T_2H, T_3H, T_IM2, T_IM3, T_4H, T_5H, T_ACLR, T_IM4, T_IM5, T_IM7>>

TypeSweepCalls ==
    {[k \in 1..Len(TypeSweep) |-> SeverityCall(c[1], c[2], c[3], TypeSweep[k])] :
        c \in ProbeFrequencies \X VictimCodes \X AggressorStrings}

TypeSweepInit ==
    /\ Idle
    /\ calls \in TypeSweepCalls
    /\ rets = <<>>

TypeSweepSpec == TypeSweepInit /\ [][SeverityNext]_vars

----------------------------------------------------------------------------
(* rf_performance.py: signal levels.  Powers and levels are integers in    *)
(* hundredths of a dB (dBm, dBc, dB); a product with a factor given in     *)
(* tenths is rounded down to the hundredth.                                *)

\* str.upper()
ToUpper(s) ==
    [i \in 1..Len(s) |->
        IF \E k \in 1..Len(LowerOf) : LowerOf[k] = s[i]
        THEN Upper[CHOOSE k \in 1..Len(LowerOf) : LowerOf[k] = s[i]]
        ELSE s[i]]

\* x * (tenths / 10)
Scale(x, tenths) == (x * tenths) \div 10

\* The defaults of the dataclass
SystemParameters ==
    [lte_tx_power                 |-> 2300,
     wifi_tx_power                |-> 1800,
     ble_tx_power                 |-> 1000,
     halow_tx_power               |-> 2000,
     antenna_isolation            |-> 2500,
     pcb_isolation                |-> 2000,
     shield_isolation             |-> 0,
     tx_harmonic_filtering_db     |-> 4000,
     rx_preselector_filtering_db  |-> 0,
     out_of_band_rejection_db     |-> 6000,
     wifi_ble_isolation_db        |-> 1000,
     cellular_wifi_isolation_db   |-> 1500,
     iip3_dbm                     |-> -1000,
     iip2_dbm                     |-> 2000,
     pa_class                     |-> "AB",
     bias_point_optimized         |-> TRUE,
     lte_sensitivity              |-> -10500,
     wifi_sensitivity             |-> -8500,
     ble_sensitivity              |-> -9500,
     gnss_sensitivity             |-> -15000,
     halow_sensitivity            |-> -9000,
     noise_figure_db              |-> 600,
     thermal_noise_density_dbm_hz |-> -17400]

\* The same function without the physical limits
calculate_hd3_from_iip3_Unclamped(tx_power_dbm, iip3_dbm, pa_class) ==
    LET power_delta == tx_power_dbm - iip3_dbm
        pa          == CASE pa_class = "A"  -> 500
                         [] pa_class = "AB" -> 0
                         [] pa_class = "B"  -> -300
                         [] pa_class = "C"  -> -800
                         [] OTHER           -> 0
        level       == IF power_delta < 500 THEN 500
                       ELSE IF power_delta > 1500 THEN -300
                       ELSE 0
    IN  (-2) * power_delta + pa + level

\* HD3 in dBc from the TX power, IIP3 and the PA class
calculate_hd3_from_iip3(tx_power_dbm, iip3_dbm, pa_class) ==
    LET power_delta    == tx_power_dbm - iip3_dbm
        hd3_basic      == (-2) * power_delta
        pa_corrections == CASE pa_class = "A"  -> 500
                            [] pa_class = "AB" -> 0
                            [] pa_class = "B"  -> -300
                            [] pa_class = "C"  -> -800
                            [] OTHER           -> 0
        hd3_correction == IF power_delta < 500 THEN pa_corrections + 500
                          ELSE IF power_delta > 1500 THEN pa_corrections - 300
                          ELSE pa_corrections
        hd3_dbc        == hd3_basic + hd3_correction
    IN  Max(Min(hd3_dbc, -2000), -7000)

\* HD2 in dBc from the TX power, IIP2 and the bias point
calculate_hd2_from_iip2(tx_power_dbm, iip2_dbm, bias_optimized) ==
    LET power_delta         == tx_power_dbm - iip2_dbm
        hd2_basic           == -power_delta
        bias_correction     == IF bias_optimized THEN 300 ELSE -200
        symmetry_correction == IF power_delta < 1000 THEN 300
                               ELSE IF power_delta > 2000 THEN -500
                               ELSE 0
        hd2_dbc             == hd2_basic + bias_correction + symmetry_correction
    IN  Max(Min(hd2_dbc, -1500), -6000)

\* (hd4_dbc, hd5_dbc)
calculate_higher_order_harmonics(hd2_dbc, hd3_dbc) ==
    <<Max(hd2_dbc - 2000, -8000), Max(hd3_dbc - 1500, -8000)>>

\* The harmonic levels of the system at a TX power
calculate_system_harmonic_levels(tx_power_dbm, system_params) ==
    LET hd2_dbc == calculate_hd2_from_iip2(tx_power_dbm, system_params.iip2_dbm,
                                           system_params.bias_point_optimized)
        hd3_dbc == calculate_hd3_from_iip3(tx_power_dbm, system_params.iip3_dbm,
                                           system_params.pa_class)
        higher  == calculate_higher_order_harmonics(hd2_dbc, hd3_dbc)
    IN  [hd2_dbc |-> hd2_dbc, hd3_dbc |-> hd3_dbc,
         hd4_dbc |-> higher[1], hd5_dbc |-> higher[2]]

\* What a level function hands back: the tuple it returns, or the
\* exception it raises
Returns(value) == [raises |-> "", value |-> value]

Raises(exception) == [raises |-> exception, value |-> <<>>]

\* (final_harmonic_dbc, harmonic_at_victim_final_dbm, formula, coeff), or
\* ValueError for an order outside 2..5
calculate_harmonic_level_quantitative(fundamental_power_dbm, harmonic_order, system_params, fundamental_freq_mhz) ==
    IF harmonic_order \notin 2..5 THEN Raises("ValueError")
    ELSE
    LET formula == <<"2H = a2 V^2", "3H = a3 V^3", "4H = a4 V^4",
                     "5H = a5 V^5">>[harmonic_order - 1]
        coeff   == <<"a2 = 0.0562", "a3 = 0.01", "a4 = 0.0018",
                     "a5 = 0.001">>[harmonic_order - 1]
        calculated_harmonics ==
            calculate_system_harmonic_levels(fundamental_power_dbm, system_params)
        harmonic_dbc ==
            <<calculated_harmonics.hd2_dbc, calculated_harmonics.hd3_dbc,
              calculated_harmonics.hd4_dbc,
              calculated_harmonics.hd5_dbc>>[harmonic_order - 1]
        harmonic_at_tx_dbm == fundamental_power_dbm + harmonic_dbc
        total_tx_filter_db ==
            system_params.tx_harmonic_filtering_db
            + <<0, 300, 600, 1000>>[harmonic_order - 1]
        harmonic_after_tx_filter_dbm == harmonic_at_tx_dbm - total_tx_filter_db
        base_isolation_db ==
            system_params.antenna_isolation + system_params.pcb_isolation
            + system_params.shield_isolation
        \* 20*log10(harmonic_order) for the orders 2..5
        twenty_log10 == <<602, 954, 1204, 1397>>[harmonic_order - 1]
        freq_isolation_db  == Min(twenty_log10, 1000)
        total_isolation_db == base_isolation_db + freq_isolation_db
        harmonic_at_victim_input_dbm ==
            harmonic_after_tx_filter_dbm - total_isolation_db
        total_rx_rejection_db ==
            Scale(system_params.out_of_band_rejection_db,
                  <<5, 7, 8, 9>>[harmonic_order - 1])
        harmonic_at_victim_final_dbm ==
            harmonic_at_victim_input_dbm - total_rx_rejection_db
        fundamental_at_victim_dbm == fundamental_power_dbm - base_isolation_db
        final_harmonic_dbc ==
            harmonic_at_victim_final_dbm - fundamental_at_victim_dbm
        min_harmonic_dbc == <<-1500, -2500, -3500, -4500>>[harmonic_order - 1]
    IN  IF final_harmonic_dbc > min_harmonic_dbc
        THEN Returns(<<min_harmonic_dbc,
                       fundamental_at_victim_dbm + min_harmonic_dbc,
                       formula, coeff>>)
        ELSE Returns(<<final_harmonic_dbc, harmonic_at_victim_final_dbm,
                       formula, coeff>>)

\* (final_imd_dbc, imd_at_victim_final_dbm, formula, dominant_coeff); an
\* order that the table does not hold gets the conservative estimate
calculate_imd_level_quantitative(power1_dbm, power2_dbm, imd_order, system_params) ==
    LET input_power_dbm == Max(power1_dbm, power2_dbm)
        poly_dbc ==
            CASE imd_order = T_IM2 -> -2570
              [] imd_order = T_IM3 -> -4700
              [] imd_order = T_IM4 -> -5740
              [] imd_order = T_IM5 -> -6390
              [] imd_order = T_IM7 -> -7000
              [] OTHER             -> -7000
        formula ==
            CASE imd_order = T_IM2 -> <<"a2 V1 V2 (2nd order beat/sum products)">>
              [] imd_order = T_IM3 -> <<"a3 (2 V1^2 V2 + 2 V1 V2^2) + 5th order contributions">>
              [] imd_order = T_IM4 -> <<"a4 (3 V1^3 V2 + 3 V1 V2^3 + mixed terms)">>
              [] imd_order = T_IM5 -> <<"a5 (3 V1^2 2 V2^2 + 3 V2^2 2 V1^2)">>
              [] imd_order = T_IM7 -> <<"a7 higher-order polynomial terms (estimated)">>
              [] OTHER             -> <<"Unknown ", imd_order, " product">>
        dominant_coeff ==
            CASE imd_order = T_IM2 -> "a2 = 0.0562"
              [] imd_order = T_IM3 -> "a3 = 0.01 + a5 contributions"
              [] imd_order = T_IM4 -> "a4 = 0.0018"
              [] imd_order = T_IM5 -> "a5 = 0.001"
              [] imd_order = T_IM7 -> "a7 = 0.0001 (estimated)"
              [] OTHER             -> "unknown"
        effective_order ==
            CASE imd_order = T_IM2 -> 2
              [] imd_order = T_IM3 -> 3
              [] imd_order = T_IM4 -> 4
              [] imd_order = T_IM5 -> 5
              [] imd_order = T_IM7 -> 7
              [] OTHER             -> 3
        calculated_harmonics ==
            calculate_system_harmonic_levels(input_power_dbm, system_params)
        base_imd_dbc ==
            CASE imd_order = T_IM2 ->
                    poly_dbc + Scale(calculated_harmonics.hd2_dbc + 3210, 8)
              [] imd_order = T_IM3 ->
                    poly_dbc + Scale(calculated_harmonics.hd3_dbc + 6040, 12)
              [] imd_order = T_IM4 ->
                    poly_dbc + Scale(calculated_harmonics.hd4_dbc + 7300, 9)
              [] imd_order = T_IM5 ->
                    poly_dbc + Scale(calculated_harmonics.hd5_dbc + 8400, 8)
              [] OTHER -> poly_dbc
        imd_at_tx_dbm == input_power_dbm + base_imd_dbc
        tx_filter_db  == IF effective_order % 2 = 0
                         THEN Scale(system_params.tx_harmonic_filtering_db, 3)
                         ELSE 0
        imd_after_tx_filter_dbm == imd_at_tx_dbm - tx_filter_db
        base_isolation_db ==
            system_params.antenna_isolation + system_params.pcb_isolation
            + system_params.shield_isolation
        tech_isolation_db ==
            (IF system_params.wifi_ble_isolation_db > 0
             THEN Scale(system_params.wifi_ble_isolation_db, 4) ELSE 0)
            + (IF system_params.cellular_wifi_isolation_db > 0
               THEN Scale(system_params.cellular_wifi_isolation_db, 4) ELSE 0)
        total_isolation_db == base_isolation_db + tech_isolation_db
        imd_at_victim_input_dbm == imd_after_tx_filter_dbm - total_isolation_db
        rx_filter_db ==
            system_params.rx_preselector_filtering_db
            + (IF effective_order % 2 = 0 \/ effective_order >= 5
               THEN Scale(system_params.out_of_band_rejection_db, 3) ELSE 0)
        imd_at_victim_final_dbm == imd_at_victim_input_dbm - rx_filter_db
        fundamental_at_victim_dbm == input_power_dbm - base_isolation_db
        final_imd_dbc == imd_at_victim_final_dbm - fundamental_at_victim_dbm
        min_dbc == CASE effective_order = 2 -> -1000
                     [] effective_order = 3 -> -1500
                     [] effective_order = 4 -> -2500
                     [] effective_order = 5 -> -3000
                     [] effective_order = 7 -> -3500
                     [] OTHER               -> -4000
    IN  IF final_imd_dbc > min_dbc
        THEN Returns(<<min_dbc, fundamental_at_victim_dbm + min_dbc,
                       formula, dominant_coeff>>)
        ELSE Returns(<<final_imd_dbc, imd_at_victim_final_dbm,
                       formula, dominant_coeff>>)

\* Receiver sensitivity by technology
get_victim_sensitivity_quantitative(victim_band_code, system_params) ==
    LET code == ToUpper(victim_band_code) IN
    IF Contains(code, <<"G", "N", "S", "S">>) \/ Contains(code, <<"G", "P", "S">>)
    THEN system_params.gnss_sensitivity
    ELSE IF Contains(code, <<"L", "T", "E">>)
    THEN system_params.lte_sensitivity
    ELSE IF Contains(code, <<"W", "I", "F", "I">>)
            \/ Contains(code, <<"W", "I", "-", "F", "I">>)
    THEN system_params.wifi_sensitivity
    ELSE IF Contains(code, <<"B", "L", "E">>)
    THEN system_params.ble_sensitivity
    ELSE IF Contains(code, <<"H", "A", "L", "O", "W">>)
    THEN system_params.halow_sensitivity
    ELSE -10000

\* The same thresholds for every victim
assess_quantitative_risk_OneTable(desensitization_db, victim_band_code) ==
    IF desensitization_db >= 800 THEN <<"Critical", SYM_CRITICAL>>
    ELSE IF desensitization_db >= 300 THEN <<"High", SYM_HIGH>>
    ELSE IF desensitization_db >= 100 THEN <<"Medium", SYM_MEDIUM>>
    ELSE IF desensitization_db >= 50 THEN <<"Low", SYM_LOW>>
    ELSE <<"Negligible", SYM_SAFE>>

\* (risk_level, risk_symbol) of a desensitization; every branch of the two
\* tables returns, the adjustment for safety-critical systems after them
\* is never reached
assess_quantitative_risk(desensitization_db, victim_band_code) ==
    LET code == ToUpper(victim_band_code) IN
    IF Contains(code, <<"G", "N", "S", "S">>) \/ Contains(code, <<"G", "P", "S">>)
    THEN IF desensitization_db >= 800 THEN <<"Critical", SYM_CRITICAL>>
         ELSE IF desensitization_db >= 300 THEN <<"High", SYM_HIGH>>
         ELSE IF desensitization_db >= 100 THEN <<"Medium", SYM_MEDIUM>>
         ELSE IF desensitization_db >= 50 THEN <<"Low", SYM_LOW>>
         ELSE <<"Negligible", SYM_SAFE>>
    ELSE IF desensitization_db >= 1200 THEN <<"Critical", SYM_CRITICAL>>
         ELSE IF desensitization_db >= 600 THEN <<"High", SYM_HIGH>>
         ELSE IF desensitization_db >= 300 THEN <<"Medium", SYM_MEDIUM>>
         ELSE IF desensitization_db >= 100 THEN <<"Low", SYM_LOW>>
         ELSE <<"Negligible", SYM_SAFE>>

\* 10*log10(1 + 10^(x/10)) for x > 0: x plus 10*log10(1 + 10^(-x/10)),
\* which falls from 3.01 dB at 0 dB to under 0.01 dB from 27 dB on; the
\* second term is tabulated per dB of x and linear in between
TenLog10OnePlus(x) ==
    LET table == <<301, 253, 212, 176, 145, 119, 97, 79, 63, 51, 41, 33, 26,
                   21, 16, 13, 10, 8, 6, 5, 4, 3, 2, 2, 1, 1, 1, 0>>
        k     == x \div 100
    IN  IF k + 2 > Len(table) THEN x
        ELSE x + table[k + 1]
               - ((table[k + 1] - table[k + 2]) * (x % 100)) \div 100

\* The interference analysis at the victim receiver
calculate_interference_at_victim_quantitative(interference_at_tx_dbm, victim_band_code, tx_band_codes, system_params) ==
    LET code == ToUpper(victim_band_code)
        gnss == Contains(code, <<"G", "N", "S", "S">>)
        lte  == Contains(code, <<"L", "T", "E">>)
        wifi == Contains(code, <<"W", "I", "F", "I">>)
                \/ Contains(code, <<"W", "I", "-", "F", "I">>)
        ble  == Contains(code, <<"B", "L", "E">>)
        total_isolation_db ==
            system_params.antenna_isolation + system_params.pcb_isolation
            + system_params.shield_isolation
        interference_at_victim_dbm == interference_at_tx_dbm - total_isolation_db
        victim_sensitivity ==
            get_victim_sensitivity_quantitative(victim_band_code, system_params)
        rx_bandwidth_hz ==
            IF gnss THEN 2000000 ELSE IF lte THEN 10000000
            ELSE IF wifi THEN 20000000 ELSE IF ble THEN 1000000 ELSE 5000000
        noise_figure_db ==
            IF gnss THEN 200 ELSE system_params.noise_figure_db
        required_cnr_db ==
            IF gnss THEN 1500 ELSE IF lte THEN 1000
            ELSE IF wifi THEN 1200 ELSE IF ble THEN 800 ELSE 1000
        \* 10*log10(rx_bandwidth_hz), rounded down
        ten_log10_bandwidth ==
            IF gnss THEN 6301 ELSE IF lte THEN 7000
            ELSE IF wifi THEN 7301 ELSE IF ble THEN 6000 ELSE 6698
        thermal_noise_dbm ==
            system_params.thermal_noise_density_dbm_hz + ten_log10_bandwidth
        noise_floor_dbm == thermal_noise_dbm + noise_figure_db
        interference_margin_db == victim_sensitivity - interference_at_victim_dbm
        i_over_n == TenLog10OnePlus(interference_at_victim_dbm - noise_floor_dbm)
        excess_interference_db == interference_at_victim_dbm - victim_sensitivity
        sensitivity_degradation_db ==
            IF gnss THEN Scale(excess_interference_db, 6)
            ELSE Scale(excess_interference_db, 4)
        uncapped ==
            IF interference_at_victim_dbm > victim_sensitivity
            THEN Max(i_over_n, sensitivity_degradation_db)
            ELSE i_over_n
        desensitization_db ==
            IF interference_at_victim_dbm <= noise_floor_dbm THEN 0
            ELSE IF gnss THEN Min(uncapped, 1500)
            ELSE Min(uncapped, 3000)
        sir_db == IF interference_at_victim_dbm > -20000
                  THEN victim_sensitivity + 300 - interference_at_victim_dbm
                  ELSE 99900
        risk == assess_quantitative_risk(desensitization_db, victim_band_code)
    IN  [interference_at_victim_dbm |-> interference_at_victim_dbm,
         victim_sensitivity_dbm     |-> victim_sensitivity,
         interference_margin_db     |-> interference_margin_db,
         desensitization_db         |-> desensitization_db,
         effective_sensitivity_dbm  |-> victim_sensitivity + desensitization_db,
         noise_floor_dbm            |-> noise_floor_dbm,
         sir_db                     |-> sir_db,
         risk_level                 |-> risk[1],
         risk_symbol                |-> risk[2],
         total_isolation_applied_db |-> total_isolation_db,
         rx_bandwidth_hz            |-> rx_bandwidth_hz,
         required_cnr_db            |-> required_cnr_db]

\* TX power by technology
get_aggressor_power_quantitative(band_code, system_params) ==
    LET band_upper == ToUpper(band_code)
        has(p)     == Contains(band_upper, p)
    IN  IF has(<<"L", "T", "E">>) \/ has(<<"5", "G">>)
        THEN system_params.lte_tx_power
        ELSE IF has(<<"W", "I", "F", "I">>) \/ has(<<"W", "I", "-", "F", "I">>)
                \/ has(<<"W", "L", "A", "N">>)
        THEN system_params.wifi_tx_power
        ELSE IF has(<<"B", "L", "E">>)
                \/ has(<<"B", "L", "U", "E", "T", "O", "O", "T", "H">>)
        THEN system_params.ble_tx_power
        ELSE IF has(<<"H", "A", "L", "O", "W">>)
        THEN system_params.halow_tx_power
        ELSE IF has(<<"I", "S", "M">>) \/ has(<<"Z", "I", "G", "B", "E", "E">>)
                \/ has(<<"T", "H", "R", "E", "A", "D">>)
        THEN 1000
        ELSE IF has(<<"L", "O", "R", "A">>) \/ has(<<"S", "I", "G", "F", "O", "X">>)
                \/ has(<<"L", "O", "R", "A", "W", "A", "N">>)
        THEN 1400
        ELSE IF has(<<"G", "N", "S", "S">>) \/ has(<<"G", "P", "S">>)
        THEN 0
        ELSE 2000

\* The level of a product at the TX: the tuple of the level function of
\* its type, or the ValueError that makes the loop skip the product
ProductLevel(product_type, aggressors, aggressor_power_dbm, band_objects, system_params) ==
    IF product_type # <<>> /\ product_type[Len(product_type)] = "H"
    THEN \* int(product_type[0])
         IF product_type[1] \notin {Alphabet[i] : i \in 7..16}
         THEN Raises("ValueError")
         ELSE LET harmonic_order == Ord[product_type[1]] - 7
                  \* str.strip() of a string whose only whitespace is
                  \* the space
                  Strip(s) ==
                      LET inked == {i \in 1..Len(s) : s[i] # " "} IN
                      IF inked = {} THEN <<>>
                      ELSE SubSeq(s,
                                  CHOOSE i \in inked : \A j \in inked : i <= j,
                                  CHOOSE i \in inked : \A j \in inked : i >= j)
                  aggressor_band == Strip(aggressors[1])
                  found == {i \in 1..Len(band_objects) :
                               /\ band_objects[i].code = aggressor_band
                               /\ band_objects[i].tx_low > 0}
                  band  == band_objects[CHOOSE i \in found :
                                            \A j \in found : i <= j]
                  fundamental_freq_mhz ==
                      IF found = {} THEN 1000000
                      ELSE (band.tx_low + band.tx_high) \div 2
              IN  calculate_harmonic_level_quantitative(
                      aggressor_power_dbm, harmonic_order, system_params,
                      fundamental_freq_mhz)
    ELSE IF Len(product_type) >= 2 /\ SubSeq(product_type, 1, 2) = <<"I", "M">>
    THEN calculate_imd_level_quantitative(aggressor_power_dbm,
                                          aggressor_power_dbm, product_type,
                                          system_params)
    ELSE Returns(<<-5000, aggressor_power_dbm - 5000,
                   "Default nonlinearity estimate", "mixed">>)

\* One pass of the loop over the products: the QuantitativeResults that
\* the product adds, one per victim, or none when it is skipped
QuantitativeResults(product, band_objects, system_params) ==
    LET product_type  == product.Type
        frequency_mhz == product.Frequency_MHz
        aggressors    == IF product.Aggressors # <<>>
                         THEN Split(product.Aggressors) ELSE <<>>
        victims       == IF product.Victims # <<>>
                         THEN Split(product.Victims) ELSE <<>>
        powers        == {get_aggressor_power_quantitative(aggressors[i],
                                                           system_params) :
                              i \in 1..Len(aggressors)}
        aggressor_power_dbm == CHOOSE p \in powers : \A q \in powers : p >= q
        level == ProductLevel(product_type, aggressors, aggressor_power_dbm,
                              band_objects, system_params)
    IN  IF aggressors = <<>> \/ victims = <<>> \/ frequency_mhz <= 0
        THEN <<>>
        ELSE IF level.raises # "" THEN <<>>
        ELSE [vi \in 1..Len(victims) |->
                LET victim_code     == victims[vi]
                    victim_analysis ==
                        calculate_interference_at_victim_quantitative(
                            level.value[2], victim_code, aggressors,
                            system_params)
                IN  [frequency_mhz              |-> frequency_mhz,
                     product_type               |-> product_type,
                     aggressors                 |-> aggressors,
                     victims                    |-> <<victim_code>>,
                     aggressor_power_dbm        |-> aggressor_power_dbm,
                     interference_level_dbc     |-> level.value[1],
                     interference_at_tx_dbm     |-> level.value[2],
                     interference_at_victim_dbm |->
                         victim_analysis.interference_at_victim_dbm,
                     victim_sensitivity_dbm     |->
                         victim_analysis.victim_sensitivity_dbm,
                     interference_margin_db     |->
                         victim_analysis.interference_margin_db,
                     desensitization_db         |->
                         victim_analysis.desensitization_db,
                     risk_level                 |-> victim_analysis.risk_level,
                     risk_symbol                |-> victim_analysis.risk_symbol,
                     mathematical_formula       |-> level.value[3]]]

\* The list of QuantitativeResults of a list of products
analyze_interference_quantitative(interference_products, band_objects, system_params) ==
    Flatten([i \in 1..Len(interference_products) |->
                QuantitativeResults(interference_products[i], band_objects,
                                    system_params)])

----------------------------------------------------------------------------
(* Direct calls of the functions of rf_performance.py *)

\* One call of calculate_hd3_from_iip3, and two calls with the same TX
\* power and PA class, the second with the higher IIP3.  Powers and IIP3
\* values in hundredths of a dBm; "D" is a class that pa_corrections does
\* not hold.
Hd3Calls ==
    LET TxPowers  == {0, 1000, 2000, 2300}
        Iip3s     == {-3000, -1000, -10, 0, 500, 501, 1500, 1501, 2000, 4000}
        PaClasses == {"A", "AB", "B", "C", "D"}
        Hd3Call(tx_power_dbm, iip3_dbm, pa_class) ==
            [fn |-> "calculate_hd3_from_iip3", tx_power_dbm |-> tx_power_dbm,
             iip3_dbm |-> iip3_dbm, pa_class |-> pa_class]
    IN  {<<Hd3Call(c[1], c[2], c[3])>> : c \in TxPowers \X Iip3s \X PaClasses}
        \cup
        {<<Hd3Call(c[1], c[2], c[4]), Hd3Call(c[1], c[3], c[4])>> :
            c \in {d \in TxPowers \X Iip3s \X Iip3s \X PaClasses : d[2] < d[3]}}

\* The victim codes of above, and codes with GPS in them
QuantVictimCodes ==
    VictimCodes \cup {<<"G", "P", "S", "_", "L", "1">>,
                      <<"g", "p", "s">>}

\* The codes that get_victim_sensitivity_quantitative and
\* assess_quantitative_risk take for GNSS
GnssOrGps(victim_band_code) ==
    \/ Contains(ToUpper(victim_band_code), <<"G", "N", "S", "S">>)
    \/ Contains(ToUpper(victim_band_code), <<"G", "P", "S">>)

\* One call of assess_quantitative_risk, and two calls with the same
\* desensitization, the first for a victim taken for GNSS and the second
\* for another victim.  The desensitizations lie on, under and over the
\* thresholds of the two tables.
RiskCalls ==
    LET Desensitizations ==
            {0, 49, 50, 99, 100, 299, 300, 599, 600, 799, 800, 801, 1000,
             1199, 1200, 1500, 3000}
        RiskCall(desensitization_db, victim_band_code) ==
            [fn |-> "assess_quantitative_risk",
             desensitization_db |-> desensitization_db,
             victim_band_code |-> victim_band_code]
    IN  {<<RiskCall(c[1], c[2])>> : c \in Desensitizations \X QuantVictimCodes}
        \cup
        {<<RiskCall(c[1], c[2]), RiskCall(c[1], c[3])>> :
            c \in {d \in Desensitizations \X QuantVictimCodes \X QuantVictimCodes :
                      GnssOrGps(d[2]) /\ ~GnssOrGps(d[3])}}

\* One call of calculate_interference_at_victim_quantitative: with the
\* defaults, a shielded system, or a system with another noise figure and
\* GNSS sensitivity; with an interference level at the TX (hundredths of a
\* dBm) that, after the 45 dB of the default isolation, lies on or around a
\* noise floor or a sensitivity, far under them or far over them
VictimCalls ==
    LET SystemParams ==
            {SystemParameters,
             [SystemParameters EXCEPT !.shield_isolation = 3000],
             [SystemParameters EXCEPT !.noise_figure_db = 300,
                                      !.gnss_sensitivity = -14000]}
        InterferenceLevels ==
            {-20000, -10500, -6400, -6399, -6398, -6300, -6299, -5602, -5601,
             -5300, -5299, -4999, -4998, -4000, -3000, -500, 0, 2300}
    IN  {<<[fn |-> "calculate_interference_at_victim_quantitative",
            interference_at_tx_dbm |-> c[1],
            victim_band_code |-> c[2],
            tx_band_codes |-> <<LTE_B1.code>>,
            system_params |-> c[3]]>> :
            c \in InterferenceLevels \X QuantVictimCodes \X SystemParams}

\* Products as calculate_all_products lists them, with the fields that
\* analyze_interference_quantitative reads: of every type of the
\* calculator, of the IMD orders 6 and 9, of the harmonic order 6, with a
\* type that starts with no digit, with two victims, and without victim
Products ==
    LET b1b13  == LTE_B1.code \o CommaSpace \o LTE_B13.code
        b1wifi == LTE_B1.code \o CommaSpace \o WiFi_2G.code
        Product(type, frequency, aggressors, victims) ==
            [Type |-> type, Frequency_MHz |-> frequency,
             Aggressors |-> aggressors, Victims |-> victims]
    IN  {Product(T_2H, 1574000, LTE_B13.code, GNSS_L1.code),
         Product(T_3H, 2361000, LTE_B13.code, LTE_B40.code),
         Product(T_5H, 3935000, LTE_B13.code, <<>>),
         Product(T_IM2, 2401000, b1wifi, BLE.code \o CommaSpace \o WiFi_2G.code),
         Product(T_IM3, 1575420, b1wifi, GNSS_L1.code),
         Product(T_IM4, 1575420, b1b13, GNSS_L1.code),
         Product(T_IM5, 2140000, b1b13, LTE_B1.code),
         Product(T_IM7, 1575420, b1wifi, Galileo_E1.code),
         Product(T_ACLR, 2401000, LTE_B40.code, BLE.code),
         Product(<<"I", "M", "9">>, 1575420, b1wifi, GNSS_L1.code),
         Product(<<"I", "M", "6">>, 2140000, b1b13, LTE_B1.code),
         Product(<<"6", "H">>, 4722000, LTE_B13.code, WiFi_2G.code),
         Product(<<"x", "H">>, 1574000, LTE_B13.code, GNSS_L1.code)}

\* One call of analyze_interference_quantitative, with a list of one or of
\* two products, and two calls with the same product, the second for a
\* system with 30 dB of shielding more
AnalyzeCalls ==
    LET AnalyzeCall(interference_products, system_params) ==
            [fn |-> "analyze_interference_quantitative",
             interference_products |-> interference_products,
             band_objects |-> BAND_LIST,
             system_params |-> system_params]
        Shielded == [SystemParameters EXCEPT !.shield_isolation = 3000]
    IN  {<<AnalyzeCall(<<p>>, SystemParameters)>> : p \in Products}
        \cup {<<AnalyzeCall(<<c[1], c[2]>>, SystemParameters)>> :
                 c \in Products \X Products}
        \cup {<<AnalyzeCall(<<p>>, SystemParameters),
                AnalyzeCall(<<p>>, Shielded)>> : p \in Products}

QuantInit ==
    /\ Idle
    /\ \/ calls \in Hd3Calls
       \/ calls \in RiskCalls
       \/ calls \in VictimCalls
       \/ calls \in AnalyzeCalls
    /\ rets = <<>>

\* The next call is a call of calculate_hd3_from_iip3
Hd3FromIip3 ==
    /\ pc = "idle"
    /\ Len(rets) < Len(calls)
    /\ LET c == calls[Len(rets) + 1] IN
        /\ c.fn = "calculate_hd3_from_iip3"
        /\ rets' = Append(rets, calculate_hd3_from_iip3(c.tx_power_dbm,
                                                        c.iip3_dbm, c.pa_class))
    /\ UNCHANGED <<calculator, calls>>

\* The next call is a call of assess_quantitative_risk
AssessQuantitativeRisk ==
    /\ pc = "idle"
    /\ Len(rets) < Len(calls)
    /\ LET c == calls[Len(rets) + 1] IN
        /\ c.fn = "assess_quantitative_risk"
        /\ rets' = Append(rets, assess_quantitative_risk(c.desensitization_db,
                                                         c.victim_band_code))
    /\ UNCHANGED <<calculator, calls>>

\* The next call is a call of calculate_interference_at_victim_quantitative
InterferenceAtVictim ==
    /\ pc = "idle"
    /\ Len(rets) < Len(calls)
    /\ LET c == calls[Len(rets) + 1] IN
        /\ c.fn = "calculate_interference_at_victim_quantitative"
        /\ rets' = Append(rets,
                          calculate_interference_at_victim_quantitative(
                              c.interference_at_tx_dbm, c.victim_band_code,
                              c.tx_band_codes, c.system_params))
    /\ UNCHANGED <<calculator, calls>>

\* The next call is a call of analyze_interference_quantitative; the list
\* of products it was given stays as it is
AnalyzeInterference ==
    /\ pc = "idle"
    /\ Len(rets) < Len(calls)
    /\ LET c == calls[Len(rets) + 1] IN
        /\ c.fn = "analyze_interference_quantitative"
        /\ rets' = Append(rets,
                          analyze_interference_quantitative(
                              c.interference_products, c.band_objects,
                              c.system_params))
    /\ UNCHANGED <<calculator, calls>>

QuantNext ==
    \/ Hd3FromIip3
    \/ AssessQuantitativeRisk
    \/ InterferenceAtVictim
    \/ AnalyzeInterference

QuantSpec == QuantInit /\ [][QuantNext]_vars

----------------------------------------------------------------------------
(* What the properties below speak of *)

Done == pc = "done"

\* The indices of a list
Idx(l) == 1..Len(l)

\* The aggressor codes of a product, as a set
AggressorCodes(r) == {Split(r.Aggressors)[k] : k \in 1..Len(Split(r.Aggressors))}

\* The key of a product: type, frequency rounded to 2 decimals, sorted
\* aggressor codes, victim code
ProductKey(r) ==
    <<r.Type, Round2(r.Frequency_MHz, 1), SortedStrs(Split(r.Aggressors)),
      r.Victims>>

SelectedBands == {selected_bands[i] : i \in Idx(selected_bands)}

\* The selected bands that only receive: both transmit edges are 0
RxOnlyBands == {b \in SelectedBands : b.tx_low = 0 /\ b.tx_high = 0}

\* The selected bands that transmit
TxBands == SelectedBands \ RxOnlyBands

EdgeSet(b) == {b.tx_low, b.tx_high}

\* The guard-expanded receive window of band v holds frequency f
WindowHolds(v, f) == v.rx_low - guard <= f /\ f <= v.rx_high + guard

\* The coefficient pairs <<m, n>> and the signs s of the intermodulation
\* products m*x + s*n*y of each type, x an edge of one band and y an edge
\* of another
ImdTerms ==
    [type \in {T_IM2, T_IM3, T_IM4, T_IM5, T_IM7} |->
        IF type = T_IM2 THEN {<<1, 1, 1>>, <<1, 1, -1>>}
        ELSE IF type = T_IM3
        THEN {<<2, 1, 1>>, <<2, 1, -1>>, <<4, 1, 1>>, <<4, 1, -1>>,
              <<2, 2, 1>>, <<2, 2, -1>>}
        ELSE IF type = T_IM4 THEN {<<2, 2, 1>>, <<3, 1, 1>>, <<1, 3, 1>>}
        ELSE IF type = T_IM5
        THEN {<<3, 2, 1>>, <<3, 2, -1>>, <<2, 3, 1>>, <<2, 3, -1>>}
        ELSE {<<4, 3, 1>>, <<4, 3, -1>>}]

\* The types that the call enables
EnabledImd ==
    {T_IM3} \cup (IF imd2 THEN {T_IM2} ELSE {})
            \cup (IF imd4 THEN {T_IM4} ELSE {})
            \cup (IF imd5 THEN {T_IM5} ELSE {})
            \cup (IF imd7 THEN {T_IM7} ELSE {})

\* Every harmonic and intermodulation frequency of the selection, with its
\* type and its set of aggressor codes
Enumerated ==
    {<<Digit(n) \o <<"H">>, n * e, {b.code}>> :
        <<b, n, e>> \in {t \in TxBands \X {2, 3, 4, 5} \X (UNION {EdgeSet(b) : b \in TxBands}) :
                            t[3] \in EdgeSet(t[1])}}
    \cup
    UNION {
        {<<type, c[1] * x + c[3] * c[2] * y, {p[1].code, p[2].code}>> :
            <<x, y, c>> \in EdgeSet(p[1]) \X EdgeSet(p[2]) \X ImdTerms[type]} :
        <<p, type>> \in {q \in TxBands \X TxBands : q[1].code # q[2].code} \X EnabledImd}

\* The returned products of the harmonic and intermodulation types
IsHarmonicOrImd(r) == r.Type # T_ACLR

----------------------------------------------------------------------------
(* C1: no two products of the returned list share the key (type, frequency *)
(* rounded to 2 decimals, sorted aggressor codes, victim code).            *)
C1_UniqueKeys ==
    Done =>
        Cardinality({ProductKey(valid_results[i]) : i \in Idx(valid_results)})
            = Len(valid_results)

\* The dedup pass has dropped records of a selection of two transmitting
\* bands, whose pair loop runs in both orders
C1_Witness ==
    /\ Done
    /\ Cardinality(TxBands) >= 2
    /\ Len(deduped) < Len(results)
    /\ Len(valid_results) >= 2

(* C2: every product of the returned list has a frequency above 0, also    *)
(* when differences of band edges are zero or negative.                    *)
C2_PositiveFrequencies ==
    Done => \A i \in Idx(valid_results) : valid_results[i].Frequency_MHz > 0

\* The filter has removed a product of frequency 0 and a product of
\* negative frequency
C2_Witness ==
    /\ Done
    /\ \E i \in Idx(deduped) : deduped[i].Frequency_MHz = 0
    /\ \E i \in Idx(deduped) : deduped[i].Frequency_MHz < 0
    /\ valid_results # <<>>

(* C4: the returned list is ordered: of two adjacent products the earlier  *)
(* has the higher or the same severity (5 first, the safe 0 last); with    *)
(* the same severity its type comes no later in 2H < IM2 < 3H < IM3 < 4H < *)
(* IM4 < 5H < IM5 < IM7 < ACLR; with the same type its formula string is   *)
(* no greater, and with the same formula its frequency is no greater.      *)
TypeOrder == <<T_2H, T_IM2, T_3H, T_IM3, T_4H, T_IM4, T_5H, T_IM5, T_IM7, T_ACLR>>

TypeRank(type) == CHOOSE k \in 1..Len(TypeOrder) : TypeOrder[k] = type

InOrder(a, b) ==
    /\ a.Severity >= b.Severity
    /\ a.Severity = b.Severity =>
        /\ TypeRank(a.Type) <= TypeRank(b.Type)
        /\ a.Type = b.Type =>
            /\ StrCmp(a.Formula, b.Formula) <= 0
            /\ a.Formula = b.Formula => a.Frequency_MHz <= b.Frequency_MHz

C4_Ordered ==
    Done => \A i \in 1..(Len(valid_results) - 1) :
                InOrder(valid_results[i], valid_results[i + 1])

\* The returned list holds products of three severities, the safe ones
\* among them, and two neighbours of one severity and type that differ in
\* the formula, and the sort has moved products
C4_Witness ==
    /\ Done
    /\ Cardinality({valid_results[i].Severity : i \in Idx(valid_results)}) >= 3
    /\ \E i \in Idx(valid_results) : valid_results[i].Severity = 0
    /\ \E i \in 1..(Len(valid_results) - 1) :
          /\ valid_results[i].Severity = valid_results[i + 1].Severity
          /\ valid_results[i].Type = valid_results[i + 1].Type
          /\ valid_results[i].Formula # valid_results[i + 1].Formula
    /\ deduped # Deduplicated(results)

(* C5: a receive-only band is an aggressor of no returned product of any   *)
(* type, and it is tested as a victim: when a positive frequency that the  *)
(* other bands generate lies inside its receive window widened by the      *)
(* guard, a returned product names it as the victim.                       *)
C5_RxOnlyVictimNotAggressor ==
    Done =>
        \A v \in RxOnlyBands :
            /\ \A i \in Idx(valid_results) :
                  v.code \notin AggressorCodes(valid_results[i])
            /\ \A e \in Enumerated :
                  (e[2] > 0 /\ WindowHolds(v, e[2])) =>
                      \E i \in Idx(valid_results) :
                          /\ valid_results[i].Type = e[1]
                          /\ valid_results[i].Frequency_MHz = Round2(e[2], 1)
                          /\ valid_results[i].Victims = v.code

\* A receive-only band is selected with two transmitting bands, and the
\* returned list names it as the victim of a harmonic and of an
\* intermodulation product
C5_Witness ==
    /\ Done
    /\ Cardinality(TxBands) >= 2
    /\ \E v \in RxOnlyBands :
          /\ \E i \in Idx(valid_results) :
                /\ valid_results[i].Victims = v.code
                /\ Cardinality(AggressorCodes(valid_results[i])) = 1
          /\ \E i \in Idx(valid_results) :
                /\ valid_results[i].Victims = v.code
                /\ Cardinality(AggressorCodes(valid_results[i])) = 2

(* C6: a returned harmonic or intermodulation product with a victim names  *)
(* a selected band whose receive window widened by the guard holds the     *)
(* product's frequency, both bounds included; and for every enumerated     *)
(* positive frequency f of type T from the aggressors S and every selected *)
(* band V whose widened window holds f, the list has the product           *)
(* (T, f, S, V).                                                           *)
C6_VictimIffInWindow ==
    Done =>
        /\ \A i \in Idx(valid_results) :
              LET r == valid_results[i] IN
              (IsHarmonicOrImd(r) /\ r.Victims # <<>>) =>
                  \E v \in SelectedBands :
                      v.code = r.Victims /\ WindowHolds(v, r.Frequency_MHz)
        /\ \A e \in Enumerated : \A v \in SelectedBands :
              (e[2] > 0 /\ WindowHolds(v, e[2])) =>
                  \E i \in Idx(valid_results) :
                      /\ valid_results[i].Type = e[1]
                      /\ valid_results[i].Frequency_MHz = Round2(e[2], 1)
                      /\ AggressorCodes(valid_results[i]) = e[3]
                      /\ valid_results[i].Victims = v.code

\* The returned list has a product on the very edge of a widened window, a
\* band that is the victim of its own product, and a product without victim
C6_Witness ==
    /\ Done
    /\ \E i \in Idx(valid_results) : \E v \in SelectedBands :
          /\ valid_results[i].Victims = v.code
          /\ IsHarmonicOrImd(valid_results[i])
          /\ \/ valid_results[i].Frequency_MHz = v.rx_low - guard
             \/ valid_results[i].Frequency_MHz = v.rx_high + guard
    /\ \E i \in Idx(valid_results) :
          /\ valid_results[i].Victims # <<>>
          /\ valid_results[i].Victims \in AggressorCodes(valid_results[i])
    /\ \E i \in Idx(valid_results) : valid_results[i].Victims = <<>>

(* C7: for two distinct transmitting bands A and B, the IM3 frequencies    *)
(* that the pair loop generates for the pair (A, B) are the IM3            *)
(* frequencies it generates for (B, A), victim by victim, so that both     *)
(* orders give the same keys.                                              *)
PairLoopDone == pc = "aclr"

\* The IM3 records of the turn of the pair loop for (b1, b2)
IM3Of(b1, b2) ==
    {results[i] : i \in {k \in Idx(results) :
        /\ results[k].Type = T_IM3
        /\ results[k].Aggressors = b1.code \o CommaSpace \o b2.code}}

C7_IM3Symmetric ==
    PairLoopDone =>
        \A A, B \in TxBands :
            A.code # B.code =>
                /\ {<<r.Frequency_MHz, r.Victims>> : r \in IM3Of(A, B)}
                     = {<<r.Frequency_MHz, r.Victims>> : r \in IM3Of(B, A)}
                /\ {ProductKey(r) : r \in IM3Of(A, B)}
                     = {ProductKey(r) : r \in IM3Of(B, A)}

\* The pair loop has generated IM3 records for both orders of two
\* transmitting bands with different edges
C7_Witness ==
    /\ PairLoopDone
    /\ \E A, B \in TxBands :
          /\ A.code # B.code
          /\ EdgeSet(A) # EdgeSet(B)
          /\ IM3Of(A, B) # {}
          /\ IM3Of(B, A) # {}
          /\ \E r \in IM3Of(A, B) : r.Victims # <<>>

(* C8: for the selection [WiFi_2G, LTE_B1] with guard 1.0 MHz, IM2 on, IM4 *)
(* off, IM5 on, IM7 off, the returned list has a 2H product at 3960 MHz    *)
(* with the aggressor LTE_B1 and no victim, and an IM3 product at          *)
(* 1476.5 MHz with the aggressors LTE_B1 and WiFi_2G.                      *)
SelfTestCall ==
    /\ selected_bands = <<WiFi_2G, LTE_B1>>
    /\ guard = 1000
    /\ imd2 /\ ~imd4 /\ imd5 /\ ~imd7

C8_SelfTestProducts ==
    (Done /\ SelfTestCall) =>
        /\ \E i \in Idx(valid_results) :
              /\ valid_results[i].Type = T_2H
              /\ valid_results[i].Frequency_MHz = 3960000
              /\ valid_results[i].Aggressors = LTE_B1.code
              /\ valid_results[i].Victims = <<>>
        /\ \E i \in Idx(valid_results) :
              /\ valid_results[i].Type = T_IM3
              /\ valid_results[i].Frequency_MHz = 1476500
              /\ AggressorCodes(valid_results[i]) = {LTE_B1.code, WiFi_2G.code}

\* The call of the self-test has returned
C8_Witness == Done /\ SelfTestCall /\ valid_results # <<>>

(* C9: for every two selected bands the overlap checker emits one          *)
(* "Rx band overlap" alert when their receive windows widened by the guard *)
(* intersect, as two identical windows do, and none otherwise; the swapped *)
(* pair gets no second alert, and a receive-only band takes part.          *)
OverlapChecked == pc # "overlap"

RxWindowsIntersect(b1, b2) ==
    Max(b1.rx_low - guard, b2.rx_low - guard)
        <= Min(b1.rx_high + guard, b2.rx_high + guard)

RxAlertsOf(b1, b2) ==
    {k \in Idx(overlap_alerts) :
        /\ overlap_alerts[k][1] = "Rx band overlap"
        /\ {overlap_alerts[k][2], overlap_alerts[k][5]} = {b1.code, b2.code}}

C9_OneRxOverlapAlert ==
    OverlapChecked =>
        \A i, j \in Idx(selected_bands) :
            i < j =>
                Cardinality(RxAlertsOf(selected_bands[i], selected_bands[j]))
                    = IF RxWindowsIntersect(selected_bands[i], selected_bands[j])
                      THEN 1 ELSE 0

\* Two receive-only bands with the same receive window are selected and
\* the checker has emitted their alert
C9_Witness ==
    /\ OverlapChecked
    /\ Len(selected_bands) = 2
    /\ selected_bands[1] \in RxOnlyBands
    /\ selected_bands[2] \in RxOnlyBands
    /\ selected_bands[1].rx_low = selected_bands[2].rx_low
    /\ selected_bands[1].rx_high = selected_bands[2].rx_high
    /\ Cardinality(RxAlertsOf(selected_bands[1], selected_bands[2])) = 1

(* C10: every returned product has an integer Severity in 0..5; the        *)
(* Severity is 0 exactly when the product has no victim, and between 1 and *)
(* 5 when it names one.                                                    *)
C10_SeverityRange ==
    Done =>
        \A i \in Idx(valid_results) :
            LET r == valid_results[i] IN
            /\ "Severity" \in DOMAIN r
            /\ r.Severity \in 0..5
            /\ r.Severity = 0 <=> r.Victims = <<>>
            /\ r.Victims # <<>> => r.Severity \in 1..5

\* The returned list has a hit assessed at generation, a hit assessed by
\* the dedup pass, a hit of the top severity and a safe product
C10_Witness ==
    /\ Done
    /\ \E i \in Idx(valid_results) :
          valid_results[i].Type = T_2H /\ valid_results[i].Victims # <<>>
    /\ \E i \in Idx(valid_results) :
          valid_results[i].Type \in {T_IM4, T_IM5, T_IM7}
              /\ valid_results[i].Victims # <<>>
    /\ \E i \in Idx(valid_results) : valid_results[i].Severity = 5
    /\ \E i \in Idx(valid_results) : valid_results[i].Victims = <<>>

----------------------------------------------------------------------------
(* What the properties of assess_risk_severity speak of *)

\* The severity that call k has returned
SeverityReturned(k) == rets[k][2]

\* The calls that have returned
Returned == 1..Len(rets)

(* C11: for every victim band, aggressor set and product type, the         *)
(* severity assigned to the frequency on the centre of the victim's        *)
(* receive window is not lower than the severity assigned, for the same    *)
(* victim, aggressors and type, to a frequency 50 MHz off that centre.     *)
CentreAndOffset ==
    /\ Len(calls) = 2
    /\ Len(rets) = 2
    /\ \E b \in VictimBands :
          /\ calls[1].victim_code = b.code
          /\ calls[1].frequency = RxCentre(b)
    /\ calls[2].victim_code = calls[1].victim_code
    /\ calls[2].aggressors = calls[1].aggressors
    /\ calls[2].product_type = calls[1].product_type
    /\ Abs(calls[2].frequency - calls[1].frequency) = 50000

C11_CentreNotLower ==
    CentreAndOffset => SeverityReturned(1) >= SeverityReturned(2)

(* C12: a call whose frequency lies inside a GNSS-tagged critical window   *)
(* (1575-1576, 1227-1228 or 1176-1177 MHz) returns the severity 5,         *)
(* whatever the victim code, the aggressor string and the product type,    *)
(* IM4, IM5 and IM7 included.                                              *)
InGnssWindow(f) ==
    \/ 1575000 <= f /\ f <= 1576000
    \/ 1227000 <= f /\ f <= 1228000
    \/ 1176000 <= f /\ f <= 1177000

C12_GnssWindowForcesFive ==
    \A k \in Returned :
        InGnssWindow(calls[k].frequency) => SeverityReturned(k) = 5

(* C13: for a hit of a type without modifier (IM3, 4H, 5H, ACLR), with one *)
(* aggressor that is not a public-safety band and a frequency outside      *)
(* every critical window, the severity is the victim criticality: 5 for a  *)
(* victim code containing GNSS_L1, GNSS_L2, GNSS_L5, LTE_B13 or LTE_B14,   *)
(* 4 for BLE and WiFi_2G, 3 for WiFi_5G and HaLow_NA, 1 for the others.    *)
InCriticalWindow(f) ==
    \E k \in 1..Len(critical_bands) :
        critical_bands[k].low <= f /\ f <= critical_bands[k].high

StatedCriticality(victim_code) ==
    IF \E p \in {<<"G", "N", "S", "S", "_", "L", "1">>, <<"G", "N", "S", "S", "_", "L", "2">>, <<"G", "N", "S", "S", "_", "L", "5">>, <<"L", "T", "E", "_", "B", "1", "3">>, <<"L", "T", "E", "_", "B", "1", "4">>} : Contains(victim_code, p)
    THEN 5
    ELSE IF \E p \in {<<"B", "L", "E">>, <<"W", "i", "F", "i", "_", "2", "G">>} : Contains(victim_code, p)
    THEN 4
    ELSE IF \E p \in {<<"W", "i", "F", "i", "_", "5", "G">>, <<"H", "a", "L", "o", "w", "_", "N", "A">>} : Contains(victim_code, p)
    THEN 3
    ELSE 1

PlainHit(c) ==
    /\ c.product_type \in {T_IM3, T_4H, T_5H, T_ACLR}
    /\ ~Contains(c.aggressors, <<",">>)
    /\ ~Contains(c.aggressors, <<" ", "a", "n", "d", " ">>)
    /\ ~Contains(c.aggressors, <<"L", "T", "E", "_", "B", "1", "3">>)
    /\ ~Contains(c.aggressors, <<"L", "T", "E", "_", "B", "1", "4">>)
    /\ ~InCriticalWindow(c.frequency)

C13_VictimCriticality ==
    \A k \in Returned :
        PlainHit(calls[k]) =>
            SeverityReturned(k) = StatedCriticality(calls[k].victim_code)

----------------------------------------------------------------------------
(* C14: the returned list has IM2 products only with imd2, IM4 products    *)
(* only with imd4, IM5 products only with imd5, IM7 products only with     *)
(* imd7 and ACLR products only with aclr_margin > 0; products of the types *)
(* 2H to 5H are there under every setting when a transmitting band is      *)
(* selected, and IM3 products when two transmitting bands are.             *)
ReturnedTypes == {valid_results[i].Type : i \in Idx(valid_results)}

C14_TogglesGateTypes ==
    Done =>
        /\ T_IM2 \in ReturnedTypes => imd2
        /\ T_IM4 \in ReturnedTypes => imd4
        /\ T_IM5 \in ReturnedTypes => imd5
        /\ T_IM7 \in ReturnedTypes => imd7
        /\ T_ACLR \in ReturnedTypes => aclr_margin > 0
        /\ TxBands # {} => {T_2H, T_3H, T_4H, T_5H} \subseteq ReturnedTypes
        /\ Cardinality(TxBands) >= 2 => T_IM3 \in ReturnedTypes

\* A call with IM2 and IM5 on, IM4, IM7 and ACLR off for two transmitting
\* bands has returned IM2 and IM5 products
C14_Witness ==
    /\ Done
    /\ imd2 /\ ~imd4 /\ imd5 /\ ~imd7 /\ aclr_margin = 0
    /\ Cardinality(TxBands) >= 2
    /\ {T_IM2, T_IM5} \subseteq ReturnedTypes

(* C15: with aclr_margin > 0 the ACLR loop emits one product for every     *)
(* ordered pair of distinct selected bands (b1, b2) whose b1 transmits,    *)
(* with the aggressor b1, the midpoint of b1.tx_high and b2.rx_low         *)
(* (rounded to 2 decimals) as frequency, and b2 as victim exactly when     *)
(* |b1.tx_high - b2.rx_low| <= aclr_margin, no victim otherwise; the       *)
(* returned list holds a product with these values for every ordered pair, *)
(* which pairs of the same b1, midpoint and victim share.                  *)
AclrLoopDone == pc = "dedup"

\* The ordered pairs of the ACLR loop, as indices of the selection
AclrPairs ==
    {p \in Idx(selected_bands) \X Idx(selected_bands) :
        /\ p[1] # p[2]
        /\ ~(selected_bands[p[1]].tx_low = 0 /\ selected_bands[p[1]].tx_high = 0)}

AclrFormula(b1, b2) ==
    b1.code \o <<"_", "t", "x", "_", "h", "i", "g", "h", " ", "v", "s", " ">>
        \o b2.code \o <<"_", "r", "x", "_", "l", "o", "w">>

\* r has the values of the ACLR product of the pair (b1, b2)
IsAclrOf(r, b1, b2) ==
    /\ r.Type = T_ACLR
    /\ r.Aggressors = b1.code
    /\ 2 * r.Frequency_MHz - (b1.tx_high + b2.rx_low) \in -10..10
    /\ r.Victims = IF Abs(b1.tx_high - b2.rx_low) <= aclr_margin
                   THEN b2.code ELSE <<>>

AclrEmitted == {k \in Idx(results) : results[k].Type = T_ACLR}

AclrReturned == {k \in Idx(valid_results) : valid_results[k].Type = T_ACLR}

C15_AclrPerPair ==
    /\ (AclrLoopDone /\ aclr_margin > 0) =>
          /\ Cardinality(AclrEmitted) = Cardinality(AclrPairs)
          /\ \A p \in AclrPairs :
                LET b1 == selected_bands[p[1]]
                    b2 == selected_bands[p[2]]
                    of == {k \in AclrEmitted :
                              results[k].Formula = AclrFormula(b1, b2)}
                IN  /\ Cardinality(of) = 1
                    /\ \A k \in of : IsAclrOf(results[k], b1, b2)
    /\ (Done /\ aclr_margin > 0) =>
          /\ \A p \in AclrPairs :
                \E k \in AclrReturned :
                    IsAclrOf(valid_results[k], selected_bands[p[1]],
                             selected_bands[p[2]])
          /\ \A k \in AclrReturned :
                \E p \in AclrPairs :
                    IsAclrOf(valid_results[k], selected_bands[p[1]],
                             selected_bands[p[2]])

\* As stated: the returned list holds one ACLR product per ordered pair
C15_OneReturnedPerPair ==
    (Done /\ aclr_margin > 0) =>
        Cardinality(AclrReturned) = Cardinality(AclrPairs)

\* The returned list names a victim whose gap is the margin itself, and it
\* holds fewer ACLR products than there are ordered pairs
C15_Witness ==
    /\ Done
    /\ aclr_margin > 0
    /\ \E p \in AclrPairs : \E k \in AclrReturned :
          /\ Abs(selected_bands[p[1]].tx_high - selected_bands[p[2]].rx_low)
                = aclr_margin
          /\ valid_results[k].Aggressors = selected_bands[p[1]].code
          /\ valid_results[k].Victims = selected_bands[p[2]].code
    /\ \E k \in AclrReturned : valid_results[k].Victims = <<>>
    /\ Cardinality(AclrReturned) < Cardinality(AclrPairs)

(* C16: every returned record, whichever branch created it, has the nine   *)
(* fields Type, IM3_Type, Formula, Frequency_MHz, Aggressors, Victims,     *)
(* Risk, Severity and Details.                                             *)
RecordShape ==
    {"Type", "IM3_Type", "Formula", "Frequency_MHz", "Aggressors", "Victims",
     "Risk", "Severity", "Details"}

C16_NineFields ==
    Done => \A i \in Idx(valid_results) : DOMAIN valid_results[i] = RecordShape

\* The returned list has records of the branches that assess at generation
\* (2H, IM2) and of the branches that leave the Severity to the dedup pass
\* (IM4, IM5, IM7, ACLR), with and without victim
C16_Witness ==
    /\ Done
    /\ {T_2H, T_IM2, T_IM3, T_IM4, T_IM5, T_IM7, T_ACLR} \subseteq ReturnedTypes
    /\ \E i \in Idx(valid_results) :
          valid_results[i].Type = T_ACLR /\ valid_results[i].Victims = <<>>
    /\ \E i \in Idx(valid_results) :
          valid_results[i].Type = T_ACLR /\ valid_results[i].Victims # <<>>
    /\ \E i \in Idx(valid_results) :
          valid_results[i].Type = T_IM5 /\ valid_results[i].Victims # <<>>

----------------------------------------------------------------------------
(* What the properties of rf_performance.py speak of *)

\* Calls k and k + 1 are calls of calculate_hd3_from_iip3 with the same TX
\* power and PA class, the second with the higher IIP3
Hd3Pair ==
    /\ Len(calls) = 2
    /\ Len(rets) = 2
    /\ calls[1].fn = "calculate_hd3_from_iip3"
    /\ calls[2].fn = "calculate_hd3_from_iip3"
    /\ calls[2].tx_power_dbm = calls[1].tx_power_dbm
    /\ calls[2].pa_class = calls[1].pa_class
    /\ calls[2].iip3_dbm > calls[1].iip3_dbm

\* 20 dBm, class AB, IIP3 = -10 dBm and then IIP3 = 0 dBm
Hd3Scenario ==
    /\ Hd3Pair
    /\ calls[1].tx_power_dbm = 2000
    /\ calls[1].pa_class = "AB"
    /\ calls[1].iip3_dbm = -1000
    /\ calls[2].iip3_dbm = 0

TierRank(risk_level) ==
    CASE risk_level = "Negligible" -> 1
      [] risk_level = "Low"        -> 2
      [] risk_level = "Medium"     -> 3
      [] risk_level = "High"       -> 4
      [] risk_level = "Critical"   -> 5

\* Calls 1 and 2 are calls of assess_quantitative_risk with the same
\* desensitization of at least 8 dB, for a GNSS victim and for a victim
\* that is not GNSS
RiskPair ==
    /\ Len(calls) = 2
    /\ Len(rets) = 2
    /\ calls[1].fn = "assess_quantitative_risk"
    /\ calls[2].fn = "assess_quantitative_risk"
    /\ calls[2].desensitization_db = calls[1].desensitization_db
    /\ calls[1].desensitization_db >= 800
    /\ GnssOrGps(calls[1].victim_band_code)
    /\ ~GnssOrGps(calls[2].victim_band_code)

(* C18, as stated: every desensitization of at least 8 dB is 'Critical'    *)
(* for a GNSS victim, and the same desensitization is of a strictly lower  *)
(* tier for a victim that is not GNSS.                                     *)
C18_NonGnssStrictlyLower ==
    RiskPair =>
        /\ rets[1][1] = "Critical"
        /\ TierRank(rets[2][1]) < TierRank(rets[1][1])

(* C18, amended: every desensitization of at least 8 dB is 'Critical' for  *)
(* a GNSS victim; for a victim that is not GNSS the same desensitization   *)
(* is 'High', a strictly lower tier, while it is under 12 dB, and          *)
(* 'Critical' as well from 12 dB on.                                       *)
C18_GnssCriticalFromEight ==
    RiskPair =>
        /\ rets[1][1] = "Critical"
        /\ calls[2].desensitization_db < 1200 => rets[2][1] = "High"
        /\ calls[2].desensitization_db >= 1200 => rets[2][1] = "Critical"

C18_Witness ==
    /\ RiskPair
    /\ calls[1].desensitization_db = 800
    /\ calls[1].victim_band_code = GNSS_L1.code
    /\ calls[2].victim_band_code = LTE_B1.code
    /\ rets[1][1] = "Critical"
    /\ rets[2][1] = "High"

\* The victims that are given the GNSS sensitivity and the GNSS risk
\* thresholds
GnssVictim(c) ==
    /\ GnssOrGps(c.victim_band_code)
    /\ get_victim_sensitivity_quantitative(c.victim_band_code, c.system_params)
           = c.system_params.gnss_sensitivity

(* C19: desensitization_db of calculate_interference_at_victim_quantitative *)
(* is 0 when the interference at the victim does not exceed the noise       *)
(* floor; otherwise it is positive and at most 15 dB for a GNSS victim      *)
(* (one given the GNSS sensitivity and the GNSS risk thresholds) and at     *)
(* most 30 dB for any other victim.                                         *)
C19_DesenseWithinCeiling ==
    \A k \in Returned :
        calls[k].fn = "calculate_interference_at_victim_quantitative" =>
            IF rets[k].interference_at_victim_dbm <= rets[k].noise_floor_dbm
            THEN rets[k].desensitization_db = 0
            ELSE /\ rets[k].desensitization_db > 0
                 /\ rets[k].desensitization_db
                        <= (IF GnssVictim(calls[k]) THEN 1500 ELSE 3000)

\* The IMD orders that calculate_imd_level_quantitative knows
KnownImd == {T_IM2, T_IM3, T_IM4, T_IM5, T_IM7}

\* An 'IM...' type of an order that it does not know
UnknownImd(type) ==
    /\ Len(type) >= 2
    /\ SubSeq(type, 1, 2) = <<"I", "M">>
    /\ type \notin KnownImd

\* A product of a type of the calculator that names aggressors and victims
Analysable(p) ==
    /\ p.Type \in ProductTypes
    /\ p.Aggressors # <<>>
    /\ p.Victims # <<>>
    /\ p.Frequency_MHz > 0

(* C20: analyze_interference_quantitative returns no QuantitativeResult    *)
(* for a product whose type is an IMD order that the model does not know   *)
(* (an 'IM...' type other than IM2, IM3, IM4, IM5, IM7), returns the       *)
(* results of every other product, one per victim, raises no error and     *)
(* leaves the product in the list it was given.                            *)
C20_UnknownImdSkipped ==
    \A k \in Returned :
        calls[k].fn = "analyze_interference_quantitative" =>
            LET products == calls[k].interference_products
                results_ == rets[k]
            IN  /\ \A i \in 1..Len(results_) :
                      ~UnknownImd(results_[i].product_type)
                /\ \A i \in 1..Len(products) :
                      Analysable(products[i]) =>
                          \A v \in {Split(products[i].Victims)[j] :
                                        j \in 1..Len(Split(products[i].Victims))} :
                              \E j \in 1..Len(results_) :
                                  /\ results_[j].product_type = products[i].Type
                                  /\ results_[j].frequency_mhz
                                         = products[i].Frequency_MHz
                                  /\ results_[j].victims = <<v>>

\* The isolation between the antennas: antenna, PCB and shield
BaseIsolation(system_params) ==
    system_params.antenna_isolation + system_params.pcb_isolation
    + system_params.shield_isolation

\* The types that the harmonic and the IMD level functions handle
HarmonicOrImdType(type) ==
    type \in {T_2H, T_3H, T_4H, T_5H, T_IM2, T_IM3, T_IM4, T_IM5, T_IM7}

\* Calls 1 and 2 are calls of analyze_interference_quantitative with the
\* same products, the second with more shielding
ShieldedPair ==
    /\ Len(calls) = 2
    /\ Len(rets) = 2
    /\ calls[1].fn = "analyze_interference_quantitative"
    /\ calls[2].fn = "analyze_interference_quantitative"
    /\ calls[2].interference_products = calls[1].interference_products
    /\ calls[2].system_params.shield_isolation
           > calls[1].system_params.shield_isolation

(* C21: for every harmonic or IMD product that                             *)
(* analyze_interference_quantitative processes, the base isolation         *)
(* (antenna + PCB + shield) is subtracted once on the way from the TX      *)
(* power of the aggressor to interference_at_victim_dbm: the reported      *)
(* level is the TX power plus the reported dBc, which is relative to the   *)
(* fundamental at the victim, minus the base isolation, and shielding      *)
(* added to the system lowers it by the shielding added.                   *)
C21_IsolationOnce ==
    /\ \A k \in Returned :
          calls[k].fn = "analyze_interference_quantitative" =>
              \A i \in 1..Len(rets[k]) :
                  HarmonicOrImdType(rets[k][i].product_type) =>
                      rets[k][i].interference_at_victim_dbm
                          = rets[k][i].aggressor_power_dbm
                            + rets[k][i].interference_level_dbc
                            - BaseIsolation(calls[k].system_params)
    /\ ShieldedPair =>
          \A i \in 1..Len(rets[1]) :
              HarmonicOrImdType(rets[1][i].product_type) =>
                  rets[1][i].interference_at_victim_dbm
                      - rets[2][i].interference_at_victim_dbm
                      = BaseIsolation(calls[2].system_params)
                        - BaseIsolation(calls[1].system_params)

----------------------------------------------------------------------------
(* What the properties of the stages speak of *)

\* The Deduplicator/Ranker is at work: the dedup pass, the sort or the
\* filter is the next step
Ranking == pc \in {"dedup", "sort", "filter"}

(* C22: no stage changes its inputs in place: no step of                   *)
(* calculate_all_products changes the band list or a Band, no step of the  *)
(* Deduplicator/Ranker changes the raw product records that the generators *)
(* produced, and a call of analyze_interference_quantitative changes       *)
(* neither the product list nor the SystemParameters it was given.         *)
C22_InputsUnchanged ==
    [][/\ selected_bands' = selected_bands
       /\ Ranking => results' = results
       /\ calls' = calls]_vars

\* The list that calculate_all_products returns for the arguments when the
\* generators emit in the order of the code
InOrderList ==
    Ranked(RawProducts(selected_bands, guard, imd2, imd4, imd5, imd7,
                       aclr_margin))

(* C23: the final product list does not depend on the order in which the   *)
(* generators emit the raw products: whatever the order of the raw list,   *)
(* the Deduplicator/Ranker returns the list that it returns for the order  *)
(* of the code, with the same records in the same order.                   *)
C23_OrderOfRawProducts ==
    Done => valid_results = InOrderList

\* The frequencies of the returned products of a type whose aggressors are
\* the bands A and B
ReturnedFrequencies(type, A, B) ==
    {valid_results[i].Frequency_MHz :
        i \in {j \in Idx(valid_results) :
                /\ valid_results[j].Type = type
                /\ AggressorCodes(valid_results[j]) = {A.code, B.code}}}

\* The positive members of the reference set of a type for the bands A
\* and B, built from the coefficient tuples over both orders of the bands
ReferenceFrequencies(type, A, B) ==
    {Round2(f, 1) :
        f \in {e[2] : e \in {x \in Enumerated :
                                /\ x[1] = type
                                /\ x[3] = {A.code, B.code}
                                /\ x[2] > 0}}}

(* C24: for any two distinct transmitting bands A and B of the selection   *)
(* and every enabled intermodulation type, the set of frequencies of the   *)
(* returned products of that type with the aggressors {A, B} equals the    *)
(* positive members of the reference set built from the coefficient tuples *)
(* of the type over the Tx edges of A and B: no combination is missing and *)
(* no other frequency appears.                                             *)
C24_ProductsMatchReference ==
    Done =>
        \A A \in TxBands : \A B \in TxBands :
            A.code # B.code =>
                \A type \in EnabledImd :
                    ReturnedFrequencies(type, A, B)
                        = ReferenceFrequencies(type, A, B)

\* Two bands transmit, every optional type is enabled, every type has
\* returned products of the two bands, and a combination of the reference
\* set is not positive
C24_Witness ==
    /\ Done
    /\ imd2 /\ imd4 /\ imd5 /\ imd7
    /\ \E A \in TxBands : \E B \in TxBands :
          /\ A.code # B.code
          /\ \A type \in EnabledImd : ReturnedFrequencies(type, A, B) # {}
          /\ \E e \in Enumerated : e[3] = {A.code, B.code} /\ e[2] <= 0

\* The IM2 loop has run: the raw list holds the beat frequencies
IM2LoopDone == imd2 /\ pc \notin {"overlap", "harmonics", "im2"}

\* The pairs <<b1, b2>> of transmitting bands that the IM2 loop visits:
\* b1 before b2 in the selection
IM2Pairs ==
    {<<selected_bands[i], selected_bands[j]>> :
        <<i, j>> \in {p \in Idx(selected_bands) \X Idx(selected_bands) :
                        /\ p[1] < p[2]
                        /\ selected_bands[p[1]] \in TxBands
                        /\ selected_bands[p[2]] \in TxBands}}

\* The number of raw IM2 records of the operation  X op Y, X an edge of
\* band bx and Y an edge of band by, operands in this order
IM2Emitted(bx, X, op, by, Y) ==
    Cardinality({i \in Idx(results) :
        /\ results[i].Type = T_IM2
        /\ results[i].Details[2] = X
        /\ results[i].Details[3] = op
        /\ results[i].Details[4] = Y
        /\ results[i].Details[6] = bx.code
        /\ results[i].Details[7] = by.code})

\* One emission is one record for every band of the selection, each tested
\* as the victim
Once == Len(selected_bands)

(* C25: in IM2 generation, for each unordered pair of transmitting bands   *)
(* and each edge pair (A, B), the addition A + B is emitted once (never    *)
(* B + A), and the subtraction is emitted twice with swapped operands:     *)
(* A - B and B - A are both emitted.                                       *)
C25_SubtractionTwice ==
    IM2LoopDone =>
        \A p \in IM2Pairs : \A A \in EdgeSet(p[1]) : \A B \in EdgeSet(p[2]) :
            /\ IM2Emitted(p[1], A, "+", p[2], B) = Once
            /\ IM2Emitted(p[2], B, "+", p[1], A) = 0
            /\ IM2Emitted(p[1], A, "-", p[2], B) = Once
            /\ IM2Emitted(p[2], B, "-", p[1], A) = Once

(* C25, as the code has it: the addition A + B is emitted once and never   *)
(* as B + A; the subtraction is evaluated with both orders of the operands *)
(* and emitted for the positive one alone: A - B when A > B, B - A when    *)
(* B > A, neither when the two edges are equal.                            *)
C25_SubtractionPositiveOrder ==
    IM2LoopDone =>
        \A p \in IM2Pairs : \A A \in EdgeSet(p[1]) : \A B \in EdgeSet(p[2]) :
            /\ IM2Emitted(p[1], A, "+", p[2], B) = Once
            /\ IM2Emitted(p[2], B, "+", p[1], A) = 0
            /\ IM2Emitted(p[1], A, "-", p[2], B) = (IF A > B THEN Once ELSE 0)
            /\ IM2Emitted(p[2], B, "-", p[1], A) = (IF B > A THEN Once ELSE 0)

\* The IM2 loop has run over a pair with an edge pair A > B, one with
\* A < B and one with A = B
C25_Witness ==
    /\ IM2LoopDone
    /\ \E p \in IM2Pairs : \E A \in EdgeSet(p[1]) : \E B \in EdgeSet(p[2]) :
          A > B /\ IM2Emitted(p[1], A, "-", p[2], B) = Once
    /\ \E p \in IM2Pairs : \E A \in EdgeSet(p[1]) : \E B \in EdgeSet(p[2]) :
          A < B /\ IM2Emitted(p[2], B, "-", p[1], A) = Once
    /\ \E p \in IM2Pairs : \E A \in EdgeSet(p[1]) : \E B \in EdgeSet(p[2]) :
          A = B /\ IM2Emitted(p[1], A, "+", p[2], B) = Once

\* The deduplicated products that the filter removes
Removed == {i \in Idx(deduped) : deduped[i].Frequency_MHz <= 0}

\* The notes about filtered products in the returned alert list
FilterNotes ==
    {i \in Idx(overlap_alerts) :
        overlap_alerts[i][1]
            = "Note: products with invalid frequencies were filtered out"}

\* The dedup keys of the raw products
DistinctKeys == {DedupKey(results[i]) : i \in Idx(results)}

(* C26: calculate_all_products appends exactly one note to the alert list  *)
(* when at least one deduplicated product has a frequency <= 0, and the    *)
(* count in the note is the number of deduplicated products removed:       *)
(* returned products + count = number of distinct dedup keys. When no      *)
(* product has a frequency <= 0 there is no note, and in both cases the    *)
(* rest of the alert list is the overlap alerts.                           *)
C26_FilterNote ==
    Done =>
        /\ Len(valid_results) + Cardinality(Removed) = Cardinality(DistinctKeys)
        /\ Removed # {} =>
              /\ FilterNotes = {Len(overlap_alerts)}
              /\ overlap_alerts[Len(overlap_alerts)][2] = Cardinality(Removed)
              /\ SubSeq(overlap_alerts, 1, Len(overlap_alerts) - 1)
                    = OverlapAlerts(selected_bands, guard)
        /\ Removed = {} =>
              /\ FilterNotes = {}
              /\ overlap_alerts = OverlapAlerts(selected_bands, guard)

\* A call returns a note that counts several removed products after an
\* overlap alert
C26_Witness ==
    /\ Done
    /\ Cardinality(Removed) > 1
    /\ Len(overlap_alerts) > 1
    /\ FilterNotes = {Len(overlap_alerts)}

\* Every type has been assessed for one frequency, victim code and
\* aggressor string
SweepDone ==
    /\ Len(calls) = Len(TypeSweep)
    /\ Len(rets) = Len(calls)
    /\ \A k \in Idx(calls) : calls[k].product_type = TypeSweep[k]

\* The severities returned for the types of a set
SweepSeverities(types) ==
    {rets[k][2] : k \in {j \in Idx(rets) : calls[j].product_type \in types}}

RaisedTypes == {T_2H, T_3H, T_IM2}

UnmodifiedTypes == {T_IM3, T_4H, T_5H, T_ACLR}

LoweredTypes == {T_IM4, T_IM5, T_IM7}

(* C27: for every fixed frequency, victim code and aggressor string,       *)
(* assess_risk_severity orders the product types consistently: the         *)
(* severity for 2H, 3H and IM2 is equal among them and at least the        *)
(* severity for the unmodified types (IM3, 4H, 5H, ACLR), which is at      *)
(* least the severity for IM4, IM5 and IM7; each step differs by at most 1 *)
(* and every result stays within 1..5.                                     *)
C27_TypeOrder ==
    SweepDone =>
        /\ Cardinality(SweepSeverities(RaisedTypes)) = 1
        /\ \A r \in SweepSeverities(RaisedTypes) :
           \A u \in SweepSeverities(UnmodifiedTypes) :
           \A l \in SweepSeverities(LoweredTypes) :
              /\ r >= u /\ r - u <= 1
              /\ u >= l /\ u - l <= 1
        /\ \A k \in Idx(rets) : rets[k][2] \in 1..5

\* A sweep whose three groups of types get three different severities, and
\* no raised type is at the cap
C27_Witness ==
    /\ SweepDone
    /\ \E r \in SweepSeverities(RaisedTypes) :
       \E u \in SweepSeverities(UnmodifiedTypes) :
       \E l \in SweepSeverities(LoweredTypes) :
          r = u + 1 /\ u = l + 1 /\ r < 5

\* The ranking keys of the returned products
RankingKeys == {sort_key(valid_results[i]) : i \in Idx(valid_results)}

(* C28: the ranking key (severity tier, type priority, type name, formula  *)
(* string, frequency) is a total order on the returned products: no two    *)
(* distinct returned products have equal ranking keys, so their relative   *)
(* order never depends on the order in which they were generated.          *)
C28_RankingKeyTotal ==
    Done => Cardinality(RankingKeys) = Len(valid_results)

\* The dedup pass has just run: every raw record has its final Risk and
\* Severity, and the first record of every key has been kept
DedupPassDone == pc = "sort"

\* The raw records of a dedup key
RawOfKey(k) == {i \in Idx(results) : DedupKey(results[i]) = k}

\* The key of a record with the record's Severity and Risk symbol
Verdict(r) == <<DedupKey(r), SeverityOf(r), r.Risk>>

(* C30: deduplication never discards severity information: any two raw     *)
(* products with the same dedup key (Type, rounded frequency, sorted        *)
(* aggressors, victim) have the same Severity and the same Risk symbol,     *)
(* whether the severity was assigned at generation time or during the       *)
(* dedup pass, so the first-seen record that is kept is as severe as every  *)
(* duplicate of it that is dropped.                                         *)
C30_DuplicatesAgree ==
    DedupPassDone =>
        LET verdicts == {Verdict(results[i]) : i \in Idx(results)}
        IN  /\ Cardinality(verdicts) = Cardinality(DistinctKeys)
            /\ {Verdict(deduped[i]) : i \in Idx(deduped)} = verdicts

\* A key has a duplicate whose verdict the generator gave (a fundamental
\* IM3 product) and one whose verdict the dedup pass gave (a product of a
\* second harmonic), and keys with a victim have duplicates, of the types
\* assessed at generation time and of the types assessed by the pass
C30_Witness ==
    /\ DedupPassDone
    /\ \E k \in DistinctKeys :
          /\ k[1] = T_IM3
          /\ \E i \in RawOfKey(k) : \E j \in RawOfKey(k) :
                /\ results[i].IM3_Type = "Fundamental-only"
                /\ results[j].IM3_Type # "Fundamental-only"
    /\ \E k \in DistinctKeys :
          k[1] \in {T_IM2, T_IM3} /\ k[4] # <<>> /\ Cardinality(RawOfKey(k)) > 1
    /\ \E k \in DistinctKeys :
          k[1] \in {T_IM4, T_IM5, T_IM7} /\ k[4] # <<>>
              /\ Cardinality(RawOfKey(k)) > 1

\* The selected bands in the order of their codes
ByCode(bands) ==
    LET codes == SortedStrs([i \in Idx(bands) |-> bands[i].code])
    IN  [i \in Idx(bands) |->
            bands[CHOOSE j \in Idx(bands) : bands[j].code = codes[i]]]

\* What is compared of a product: type, frequency, sorted aggressors,
\* victim and severity
Essence(r) ==
    <<r.Type, r.Frequency_MHz,
      IF r.Aggressors # <<>> THEN SortedStrs(Split(r.Aggressors)) ELSE <<>>,
      r.Victims, SeverityOf(r)>>

EssenceSet(rs) == {Essence(rs[i]) : i \in Idx(rs)}

\* The deduplicated list of the call with the same bands listed in the
\* order of their codes (before the sort, which moves records and neither
\* adds nor drops one)
ByCodeDeduped ==
    LET raw == RawProducts(ByCode(selected_bands), guard, imd2, imd4, imd5,
                           imd7, aclr_margin)
    IN  Deduplicated([i \in Idx(raw) |-> UpdateLegacy(raw[i])])

\* The formula strings of the products of a list
Formulas(rs) == {rs[i].Formula : i \in Idx(rs)}

(* C29: the result of calculate_all_products is invariant under            *)
(* permutation of the selected band list, up to descriptive text: for any  *)
(* order of the same bands, the set of tuples (Type, Frequency_MHz, sorted *)
(* aggressors, victim, Severity) of the returned list is the same, and so  *)
(* is the number of filtered invalid-frequency products.                   *)
C29_PermutationInvariant ==
    Done =>
        LET d == ByCodeDeduped
        IN  /\ EssenceSet(valid_results) = EssenceSet(ValidResults(d))
            /\ InvalidCount(deduped) = InvalidCount(d)

\* Three or more bands are listed in another order than that of their
\* codes, the returned list has other formula strings than the list of
\* that order, and products were filtered
C29_Witness ==
    /\ Done
    /\ Len(selected_bands) >= 3
    /\ selected_bands # ByCode(selected_bands)
    /\ Formulas(valid_results) # Formulas(ValidResults(ByCodeDeduped))
    /\ InvalidCount(deduped) > 0
    /\ imd2

====
